---- MODULE Spec2Model ----
(***************************************************************************)
(* A model of the Exiftool class of src/src/index.js (the revision that    *)
(* starts at line 905): the option set, the Target, the composed command,  *)
(* and the operations that read or change them.                            *)
(*                                                                         *)
(* Strings.  A JavaScript string is a sequence of atoms.  An atom is a run *)
(* of characters that no operation of the code splits: every character the *)
(* code inspects on its own (a leading quote, a leading '/', a leading '-',*)
(* the letters of a word matched case-insensitively) is an atom of its own,*)
(* and a literal of the code that is only ever concatenated ("-json",      *)
(* "-quiet") is one atom.  null and undefined are the one-atom sequences   *)
(* Null and Undefined, which no string of the program equals.              *)
(***************************************************************************)
EXTENDS Integers, Sequences, FiniteSets, TLC

Null == <<"#null">>
Undefined == <<"#undefined">>
Q == "\""
SP == " "
NL == "\n"

\* `${v}`: what a template literal makes of a value.
ToStr(v) ==
    IF v = Null THEN <<"null">> ELSE IF v = Undefined THEN <<"undefined">> ELSE v

\* s.slice(1, -1)
Slice1(s) == IF Len(s) <= 2 THEN <<>> ELSE SubSeq(s, 2, Len(s) - 1)

\* /^"/.test(s)
StartsWithQuote(s) == Len(s) > 0 /\ s[1] = Q

\* The atom of s at i is the start of an occurrence of w.
OccursAt(s, w, i) ==
    /\ i + Len(w) - 1 <= Len(s)
    /\ \A j \in 1..Len(w) : s[i + j - 1] = w[j]

\* s.includes(w) for strings
Contains(s, w) == \E i \in 1..Len(s) : OccursAt(s, w, i)

EndsWith(s, w) == Len(w) <= Len(s) /\ OccursAt(s, w, Len(s) - Len(w) + 1)

Uppers == << "A","B","C","D","E","F","G","H","I","J","K","L","M",
             "N","O","P","Q","R","S","T","U","V","W","X","Y","Z" >>
Lowers == << "a","b","c","d","e","f","g","h","i","j","k","l","m",
             "n","o","p","q","r","s","t","u","v","w","x","y","z" >>

LowerChar(c) ==
    IF \E i \in 1..Len(Uppers) : Uppers[i] = c
    THEN Lowers[CHOOSE i \in 1..Len(Uppers) : Uppers[i] = c]
    ELSE c

\* String.prototype.toLowerCase
toLowerCase(s) == [i \in 1..Len(s) |-> LowerChar(s[i])]

\* The order of the UTF-16 code units of the letters: upper case before lower.
CharCode(c) ==
    IF \E i \in 1..Len(Uppers) : Uppers[i] = c
    THEN CHOOSE i \in 1..Len(Uppers) : Uppers[i] = c
    ELSE IF \E i \in 1..Len(Lowers) : Lowers[i] = c
         THEN Len(Uppers) + (CHOOSE i \in 1..Len(Lowers) : Lowers[i] = c)
         ELSE 0

\* a < b for strings
RECURSIVE StrLess(_, _)
StrLess(a, b) ==
    IF b = <<>> THEN FALSE
    ELSE IF a = <<>> THEN TRUE
    ELSE IF CharCode(Head(a)) < CharCode(Head(b)) THEN TRUE
    ELSE IF CharCode(Head(a)) > CharCode(Head(b)) THEN FALSE
    ELSE StrLess(Tail(a), Tail(b))

\* The first index of s where w occurs, letters compared case-insensitively
\* (a regular expression of a literal word with the i flag); 0 when none.
SearchCI(s, w) ==
    IF Contains(toLowerCase(s), toLowerCase(w))
    THEN CHOOSE i \in 1..Len(s) :
            /\ OccursAt(toLowerCase(s), toLowerCase(w), i)
            /\ \A j \in 1..(i - 1) : ~OccursAt(toLowerCase(s), toLowerCase(w), j)
    ELSE 0

\* array.indexOf(x), 0-based; -1 when absent
IndexOf(arr, x) ==
    IF \E i \in 1..Len(arr) : arr[i] = x
    THEN (CHOOSE i \in 1..Len(arr) : arr[i] = x /\ \A j \in 1..(i - 1) : arr[j] # x) - 1
    ELSE -1

\* array.join(' ')
RECURSIVE JoinSp(_)
JoinSp(arr) ==
    IF arr = <<>> THEN <<>>
    ELSE IF Len(arr) = 1 THEN arr[1]
    ELSE arr[1] \o <<SP>> \o JoinSp(Tail(arr))

(***************************************************************************)
(* Arguments of the public operations are tagged values, since an argument *)
(* may be undefined, null, a string or an array of strings.                *)
(***************************************************************************)
ArgUndefined == [kind |-> "undefined", s |-> <<>>, a |-> <<>>]
ArgNull == [kind |-> "null", s |-> <<>>, a |-> <<>>]
ArgStr(s) == [kind |-> "string", s |-> s, a |-> <<>>]
ArgArr(a) == [kind |-> "array", s |-> <<>>, a |-> a]
ArgBool(b) == [kind |-> "boolean", s |-> IF b THEN <<"true">> ELSE <<"false">>, a |-> <<>>]

(***************************************************************************)
(* The host.                                                               *)
(***************************************************************************)
\* __dirname of the module and the working directory of the process.
Dirname == << "/", "pkg" >>
ProcessCwd == << "/", "cwd" >>
\* What `which exiftool` prints when the tool is installed, and `exiftool -ver`.
ExiftoolPath == << "/", "usr/bin/exiftool" >>
ExiftoolVer == << "12.70" >>

FileA == << "/", "a.jpg" >>
FileB == << "/", "b.jpg" >>
DirD == << "/", "d" >>
Missing == << "/", "x.jpg" >>
RelC == << "c.jpg" >>
AltConfig == << "/", "alt.config" >>
SpaceyConfig == << "/", "SNAPCHAT", " ", "MEMORIES", "/exiftool.config" >>

\* Regular files and directories that exist on the host from the start.
HostFiles == { FileA, FileB, ProcessCwd \o <<"/">> \o RelC, AltConfig, SpaceyConfig }
HostDirs == { DirD, ProcessCwd, Dirname }

\* path.resolve('.', p)
Resolve(p) ==
    IF p = <<>> THEN ProcessCwd
    ELSE IF Head(p) = "/" THEN p
    ELSE ProcessCwd \o <<"/">> \o p

(***************************************************************************)
(* The option set: a JavaScript object, that is, keys in insertion order.  *)
(***************************************************************************)
OptHas(o, k) == \E i \in 1..Len(o) : o[i].k = k

OptGet(o, k) ==
    IF OptHas(o, k) THEN o[CHOOSE i \in 1..Len(o) : o[i].k = k].v ELSE Undefined

\* o[k] = v
OptPut(o, k, v) ==
    IF OptHas(o, k)
    THEN [i \in 1..Len(o) |-> IF o[i].k = k THEN [k |-> k, v |-> v] ELSE o[i]]
    ELSE Append(o, [k |-> k, v |-> v])

OptKeys(o) == [i \in 1..Len(o) |-> o[i].k]

DefaultExtensions ==
    << <<"t","x","t">>, <<"j","s">>, <<"j","s","o","n">>, <<"m","j","s">>,
       <<"c","j","s">>, <<"m","d">>, <<"h","t","m","l">>, <<"c","s","s">> >>

\* Array.prototype.sort with the comparator of orderExcludeTypesArray: a stable
\* sort on the lower-cased strings.
RECURSIVE InsertSorted(_, _)
InsertSorted(sorted, x) ==
    IF sorted = <<>> THEN <<x>>
    ELSE IF StrLess(toLowerCase(x), toLowerCase(Head(sorted)))
         THEN <<x>> \o sorted
         ELSE <<Head(sorted)>> \o InsertSorted(Tail(sorted), x)

RECURSIVE SortCI(_)
SortCI(arr) ==
    IF arr = <<>> THEN <<>>
    ELSE InsertSorted(SortCI(SubSeq(arr, 1, Len(arr) - 1)), arr[Len(arr)])

orderExcludeTypesArray(t) ==
    [t EXCEPT !._extensionsToExclude = SortCI(t._extensionsToExclude)]

RECURSIVE ExcludeString(_)
ExcludeString(exts) ==
    IF exts = <<>> THEN <<>>
    ELSE <<"--ext ">> \o Head(exts) \o <<SP>> \o ExcludeString(Tail(exts))

setExcludeTypes(t) ==
    [t EXCEPT !._opts = OptPut(t._opts, "excludeTypes",
        OptGet(t._opts, "excludeTypes") \o ExcludeString(t._extensionsToExclude))]

DefaultConfig == <<Q>> \o Dirname \o <<"/exiftool.config">> \o <<Q>>

constructor(imagePath, test) ==
    orderExcludeTypesArray(
        [ _test |-> test,
          _imgDir |-> IF imagePath = Undefined THEN Null ELSE imagePath,
          _path |-> IF imagePath = Undefined THEN Null ELSE imagePath,
          _isDirectory |-> "null",
          _fileStats |-> "null",
          _cwd |-> Dirname,
          _exiftool_config |-> DefaultConfig,
          _extensionsToExclude |-> DefaultExtensions,
          _executable |-> Null,
          _version |-> Null,
          _opts |-> << [k |-> "exiftool_config", v |-> <<"-config", SP>> \o DefaultConfig],
                       [k |-> "outputFormat", v |-> <<"-json">>],
                       [k |-> "tagList", v |-> Null],
                       [k |-> "shortcut", v |-> <<"-", "BasicShortcut">>],
                       [k |-> "includeTagFamily", v |-> <<"-groupNames">>],
                       [k |-> "compactFormat", v |-> <<"-s3">>],
                       [k |-> "quiet", v |-> <<"-quiet">>],
                       [k |-> "excludeTypes", v |-> <<>>],
                       [k |-> "binaryFormat", v |-> <<>>],
                       [k |-> "gpsFormat", v |-> <<>>],
                       [k |-> "structFormat", v |-> <<>>],
                       [k |-> "useMWG", v |-> <<>>],
                       [k |-> "overwrite_original", v |-> <<>>] >>,
          _command |-> Null ])

\* The part of getOptions that changes the object: the lazy setExcludeTypes.
getOptionsEffect(t) ==
    IF OptGet(t._opts, "excludeTypes") = <<>> THEN setExcludeTypes(t) ELSE t

RECURSIVE SerializeOpts(_)
SerializeOpts(o) ==
    IF o = <<>> THEN <<>>
    ELSE (IF Head(o).k = "overwrite_original" THEN <<>>
          ELSE IF Head(o).k = "tagList" /\ Head(o).v = Null THEN <<>>
          ELSE ToStr(Head(o).v) \o <<SP>>) \o SerializeOpts(Tail(o))

\* The string getOptions returns.
getOptions(t) == SerializeOpts(getOptionsEffect(t)._opts)

ComposeCommand(t) ==
    ToStr(t._executable) \o <<SP>> \o getOptions(t) \o <<SP>> \o ToStr(t._path)

setCommand(t) ==
    [getOptionsEffect(t) EXCEPT !._command = ComposeCommand(t)]

(***************************************************************************)
(* The synchronous option setters.  Each takes the object and returns the  *)
(* object after the call; <name>Ret is what the call returns or throws.    *)
(***************************************************************************)
Returned(v) == [kind |-> "return", val |-> v, cause |-> "none"]
Thrown(msg) == [kind |-> "throw", val |-> msg, cause |-> "none"]
\* new Error(msg, { cause })
ThrownBecause(msg, cause) == [kind |-> "throw", val |-> msg, cause |-> cause]
\* An object literal { value, error }.
Obj(value, error) == [value |-> value, error |-> error]

setOverwriteOriginal(t, enabled) ==
    [t EXCEPT !._opts = OptPut(t._opts, "overwrite_original",
        IF enabled THEN <<"-overwrite_original">> ELSE <<>>)]

enableBinaryTagOutput(t, enabled) ==
    setCommand([t EXCEPT !._opts = OptPut(t._opts, "binaryFormat",
        IF enabled THEN <<"-binary">> ELSE <<>>)])

\* fmt.match(/(?<format>xml|json)/i): the text of the leftmost match, or Null.
MatchFormat(fmt) ==
    LET ix == SearchCI(fmt, <<"x","m","l">>)
        ij == SearchCI(fmt, <<"j","s","o","n">>)
    IN  IF ix = 0 /\ ij = 0 THEN Null
        ELSE IF ij = 0 \/ (ix # 0 /\ ix < ij) THEN SubSeq(fmt, ix, ix + 2)
        ELSE SubSeq(fmt, ij, ij + 3)

setOutputFormatThrows(fmt) == MatchFormat(fmt) = Null

setOutputFormat(t, fmt) ==
    IF MatchFormat(fmt) = Null THEN t
    ELSE setCommand([t EXCEPT !._opts = OptPut(t._opts, "outputFormat",
            IF MatchFormat(fmt) = <<"x","m","l">> THEN <<"-xmlFormat">> ELSE <<"-json">>)])

setOutputFormatRet(t, fmt) ==
    IF MatchFormat(fmt) = Null
    THEN Thrown("TypeError: Cannot read properties of null (reading 'groups')")
    ELSE Returned("true")

setGPSCoordinatesOutputFormat(t, fmt) ==
    LET i == SearchCI(fmt, <<"g","p","s">>)
        gps == IF i = 0 THEN Undefined ELSE SubSeq(fmt, i, i + 2)
        signed == i > 1 /\ fmt[i - 1] = "+"
    IN  [t EXCEPT !._opts = OptPut(t._opts, "coordFormat",
            IF toLowerCase(fmt) = <<"d","e","f","a","u","l","t">> THEN <<>>
            ELSE IF gps = <<"g","p","s">>
                 THEN <<"-coordFormat %">> \o (IF signed THEN <<"+">> ELSE <<>>) \o <<".6f">>
                 ELSE <<"-coordFormat ">> \o fmt)]

enableXMPStructTagOutput(t, enabled) ==
    [t EXCEPT !._opts = OptPut(t._opts, "structFormat",
        IF enabled THEN <<"-struct">> ELSE <<>>)]

useMWG(t, enabled) ==
    IF enabled
    THEN [t EXCEPT !._opts = OptPut(t._opts, "useMWG", <<"-use MWG">>)]
    ELSE [t EXCEPT !._opts = OptPut(t._opts, "useMGW", <<>>)]

clearShortcut(t) ==
    setCommand([t EXCEPT !._opts = OptPut(t._opts, "shortcut", <<>>)])

\* shortcut is an argument value: undefined, null or a string.
setShortcut(t, shortcut) ==
    IF shortcut.kind \in {"undefined", "null"} THEN t
    ELSE setCommand([t EXCEPT !._opts = OptPut(t._opts, "shortcut", <<"-">> \o shortcut.s)])

setShortcutRet(t, shortcut) ==
    IF shortcut.kind \in {"undefined", "null"}
    THEN Returned(Obj("null", "Shortcut must be a string value."))
    ELSE Returned(Obj("true", "null"))

\* /^-{1,1}[^-]?.+$/.test(tag): a '-' followed by at least one more character.
TagHasMarker(tag) == Len(tag) >= 2 /\ tag[1] = "-"

NormalizeTags(tags) ==
    [i \in 1..Len(tags) |-> IF TagHasMarker(tags[i]) THEN tags[i] ELSE <<"-">> \o tags[i]]

\* tagsToExtract is an argument value.  The guard compares with the string
\* 'undefined', so an undefined argument reaches tagsToExtract.constructor.
setMetadataTagsRejects(tags) ==
    tags.kind = "null" \/ (tags.kind = "string" /\ tags.s \in {<<>>, <<"undefined">>})

setMetadataTagsThrows(tags) == tags.kind = "undefined"

setMetadataTags(t, tags) ==
    IF setMetadataTagsRejects(tags) \/ setMetadataTagsThrows(tags) THEN t
    ELSE setCommand([t EXCEPT !._opts = OptPut(t._opts, "tagList",
            IF tags.kind = "array" THEN JoinSp(NormalizeTags(tags.a)) ELSE tags.s)])

setMetadataTagsRet(t, tags) ==
    IF setMetadataTagsThrows(tags)
    THEN Thrown("TypeError: Cannot read properties of undefined (reading 'constructor')")
    ELSE IF setMetadataTagsRejects(tags)
         THEN Returned(Obj("null", "One or more metadata tags are required"))
         ELSE Returned(Obj("true", "null"))

\* extensionsToAddArray.forEach(push unless included), lower-cased.
RECURSIVE AddExtensions(_, _)
AddExtensions(exts, add) ==
    IF add = <<>> THEN exts
    ELSE AddExtensions(
            IF \E i \in 1..Len(exts) : exts[i] = toLowerCase(Head(add))
            THEN exts ELSE Append(exts, toLowerCase(Head(add))),
            Tail(add))

\* array.splice(index, 1), index 0-based
Splice1(arr, index) ==
    SubSeq(arr, 1, index) \o SubSeq(arr, index + 2, Len(arr))

\* extensionsToRemoveArray.forEach(splice when indexOf(...) > 0)
RECURSIVE RemoveExtensions(_, _)
RemoveExtensions(exts, remove) ==
    IF remove = <<>> THEN exts
    ELSE RemoveExtensions(
            IF IndexOf(exts, toLowerCase(Head(remove))) > 0
            THEN Splice1(exts, IndexOf(exts, toLowerCase(Head(remove))))
            ELSE exts,
            Tail(remove))

\* add and remove are argument values: null (the default) or an array.
setExtensionsToExcludeThrows(add, remove) ==
    \/ add.kind \notin {"null", "array"}
    \/ remove.kind \notin {"null", "array"}

setExtensionsToExclude(t, add, remove) ==
    LET added == IF add.kind = "array"
                 THEN AddExtensions(t._extensionsToExclude, add.a)
                 ELSE t._extensionsToExclude
        removed == IF remove.kind = "array" THEN RemoveExtensions(added, remove.a) ELSE added
    IN  IF add.kind \notin {"null", "array"} THEN t
        ELSE IF remove.kind \notin {"null", "array"}
             THEN [t EXCEPT !._extensionsToExclude = added]
             ELSE setExcludeTypes(
                    [orderExcludeTypesArray([t EXCEPT !._extensionsToExclude = removed])
                        EXCEPT !._opts = OptPut(@, "excludeTypes", <<>>)])

(***************************************************************************)
(* The state: the object, the host's files, the position of the caller's   *)
(* one call in flight, and the continuations the code left running.        *)
(***************************************************************************)
VARIABLES
    this,      \* the Exiftool instance: its fields
    fsFiles,   \* the regular files that exist on the host
    pc,        \* where the call in flight is suspended; "idle" when none is
    call,      \* the call in flight or last made: operation, arguments, _path at its start
    ret,       \* what the last completed call returned or threw
    procs,     \* the commands given to child processes since the call started, in order
    stats,     \* the paths given to stat since the call started, in order
    tasks,     \* setPath continuations waiting for their stat: [path, owner]
    echoes,    \* the config files an unfinished `echo ... >` child process is writing
    exec,      \* the command string the call gave to the external tool; Null when none
    toolOut,   \* how the call's last finished child process ended, and what it printed
    ready,     \* init has resolved with the instance
    calls,     \* how many calls the caller has made, counted up to MaxCalls
    texts,     \* the lines of the config files and their backups, by path
    history    \* the shortcut calls that have completed, in order

vars ==
    << this, fsFiles, pc, call, ret, procs, stats, tasks, echoes, exec, toolOut, ready, calls,
       texts, history >>

\* Detached setPath continuations that may be pending at once.
MaxPending == 1
\* Metadata records the external tool may print for one command.
MaxRecords == 2
\* Calls the caller makes in the behaviours that follow every setter.
MaxCalls == 4

\* The caller's count after one more call.
Counted(n) == IF n < MaxCalls THEN n + 1 ELSE n

DefaultConfigFile == Dirname \o <<"/exiftool.config">>

\* fs.stat(p): the kind of the file, or "ENOENT".
Stat(files, p) ==
    IF p \in files THEN "file" ELSE IF p \in HostDirs THEN "dir" ELSE "ENOENT"

\* The lines of the stub that createExiftoolConfigFile writes, the definitions
\* in brackets left out.
StubLines ==
    << << "%Image::ExifTool::UserDefined::Shortcuts = (" >>,
       << "    ", "BasicShortcut", " => [...]," >>,
       << "    ", "Location", " => [...]," >>,
       << "    ", "StripGPS", " => [...]," >>,
       << ");" >> >>

\* The files' lines after lines were written to the file at path p.
WriteText(t, p, lines) == [q \in DOMAIN t \cup {p} |-> IF q = p THEN lines ELSE t[q]]

NoCall == [op |-> "none", arg |-> ArgUndefined, shortcut |-> ArgUndefined,
           tags |-> <<>>, path0 |-> Null, text0 |-> Null]
NoOutput == [status |-> "none", format |-> "none", n |-> 0]
NoRet == [kind |-> "none", val |-> "none", cause |-> "none"]

\* After `new Exiftool(imagePath, test)` on a host that has the default config
\* file or not.
InitWith(imagePaths, tests, hasConfigs) ==
    /\ \E imagePath \in imagePaths, test \in tests :
          this = constructor(imagePath, test)
    /\ \E hasConfig \in hasConfigs :
          /\ fsFiles = HostFiles \cup (IF hasConfig THEN {DefaultConfigFile} ELSE {})
          /\ texts = [p \in (IF hasConfig THEN {DefaultConfigFile} ELSE {}) |-> StubLines]
    /\ pc = "idle"
    /\ call = NoCall
    /\ ret = NoRet
    /\ procs = <<>>
    /\ stats = <<>>
    /\ tasks = <<>>
    /\ echoes = {}
    /\ exec = Null
    /\ toolOut = NoOutput
    /\ ready = FALSE
    /\ calls = 0
    /\ history = <<>>

Init == InitWith({Undefined, FileA}, BOOLEAN, BOOLEAN)

\* new Exiftool() on a host where exiftool.config is in place.
InitInstalled == InitWith({Undefined}, {FALSE}, {TRUE})

(***************************************************************************)
(* setPath.  The part before `await stat(...)` runs with the call; the     *)
(* part after it is a continuation, run when the stat has answered.        *)
(***************************************************************************)
\* setPath returns { error } at once, before any await.
setPathNoPath(arg) == arg.kind \in {"undefined", "null"}

PathToImage(arg) ==
    IF arg.kind = "array"
    THEN JoinSp([i \in 1..Len(arg.a) |-> <<Q>> \o Resolve(arg.a[i]) \o <<Q>>])
    ELSE <<Q>> \o Resolve(arg.s) \o <<Q>>

\* /^(")?\//.test(pathToImage)
PathQualified(p) ==
    \/ Len(p) >= 1 /\ p[1] = "/"
    \/ Len(p) >= 2 /\ p[1] = Q /\ p[2] = "/"

\* The path setPath gives to stat.
StatTarget(p) == IF StartsWithQuote(p) THEN Slice1(p) ELSE p

\* The object after the continuation of setPath(pathToImage), given stat's answer.
setPathResume(t, pathToImage, answer) ==
    IF answer = "ENOENT" THEN t
    ELSE setCommand([t EXCEPT !._fileStats = answer,
                              !._isDirectory = IF answer = "dir" THEN "true" ELSE "false",
                              !._imgDir = IF answer = "dir" THEN pathToImage ELSE @])

setPathRet(answer) ==
    IF answer = "ENOENT"
    THEN Returned(Obj("null", "ENOENT: no such file or directory"))
    ELSE Returned(Obj("true", "null"))

(***************************************************************************)
(* init                                                                    *)
(***************************************************************************)
Attention == "ATTENTION!!! exiftool IS NOT INSTALLED."
\* The error which() and version() throw when their child process fails.
NotFound == "Exiftool not found?"

WhichCommand(t) == <<"which ">> \o (IF t._test THEN <<"exitfool">> ELSE <<"exiftool">>)
VersionCommand(t) == ToStr(t._executable) \o <<SP, "-ver">>

\* stdout without its final newline when it has one (which, version); Null when
\* the guard `stdout.slice(-1) === '\n'` fails and the field is left unset.
ChompLine(stdout) ==
    IF Len(stdout) > 0 /\ stdout[Len(stdout)] = NL
    THEN SubSeq(stdout, 1, Len(stdout) - 1) ELSE Null

StubText == "%Image::ExifTool::UserDefined::Shortcuts = ( BasicShortcut => [...], );"
EchoCommand(t) == <<"echo ", Q, StubText, Q, " > ">> \o t._exiftool_config

\* init from `this.setCommand()` (line 959) to its next await or its return;
\* stats0 is the stat log at that point.
InitProceed(t, arg, stats0) ==
    LET t1 == setCommand(t)
    IN  IF (arg.kind = "undefined" \/ (arg.kind = "string" /\ arg.s = <<>>)) /\ t1._path = Null
        THEN /\ this' = t1
             /\ pc' = "idle"
             /\ ret' = Returned("false")
             /\ stats' = stats0
             /\ UNCHANGED tasks
        ELSE IF setPathNoPath(arg)
        THEN /\ this' = t1
             /\ pc' = "init_config"
             /\ stats' = stats0
             /\ UNCHANGED << ret, tasks >>
        ELSE IF ~PathQualified(PathToImage(arg))
        THEN /\ this' = t1
             /\ pc' = "idle"
             /\ ret' = Thrown("The file system path to image must be a fully qualified path")
             /\ stats' = stats0
             /\ UNCHANGED tasks
        ELSE /\ this' = [t1 EXCEPT !._path = PathToImage(arg)]
             /\ tasks' = Append(tasks, [path |-> PathToImage(arg), owner |-> "init"])
             /\ stats' = Append(stats0, StatTarget(PathToImage(arg)))
             /\ pc' = "init_path"
             /\ UNCHANGED ret

\* The caller calls init(arg).
InitCall(arg) ==
    /\ pc = "idle"
    /\ call' = [NoCall EXCEPT !.op = "init", !.arg = arg, !.path0 = this._path]
    /\ IF this._executable = Null
       THEN /\ procs' = << WhichCommand(this) >>
            /\ stats' = <<>>
            /\ pc' = "init_which"
            /\ UNCHANGED << this, ret, tasks >>
       ELSE /\ procs' = <<>>
            /\ InitProceed(this, arg, <<>>)
    /\ exec' = Null
    /\ toolOut' = NoOutput
    /\ calls' = Counted(calls)
    /\ UNCHANGED << texts, history >>
    /\ UNCHANGED << fsFiles, echoes, ready >>

\* The answer of a child process that prints one line, or fails.
LineOutput(ok) == [status |-> IF ok THEN "ok" ELSE "fail", format |-> "text", n |-> 0]

\* InitWhichDone with a catch that logs the failed lookup and lets init go on.
InitWhichDone_Swallowed ==
    /\ pc = "init_which"
    /\ \E found \in (IF this._test THEN {FALSE} ELSE BOOLEAN) :
          /\ toolOut' = LineOutput(found)
          /\ IF found
             THEN /\ this' = [this EXCEPT !._executable = ChompLine(ExiftoolPath \o <<NL>>)]
                  /\ procs' = Append(procs, VersionCommand(this'))
                  /\ pc' = "init_version"
                  /\ UNCHANGED << ret, stats, tasks >>
             ELSE /\ InitProceed(this, call.arg, stats)
                  /\ UNCHANGED procs
    /\ UNCHANGED << fsFiles, call, echoes, exec, ready, calls, texts, history >>

\* `which exiftool` has finished: found (it printed the path) or not (exit 1).
InitWhichDone ==
    /\ pc = "init_which"
    /\ \E found \in (IF this._test THEN {FALSE} ELSE BOOLEAN) :
          /\ toolOut' = LineOutput(found)
          /\ IF found
             THEN /\ this' = [this EXCEPT !._executable = ChompLine(ExiftoolPath \o <<NL>>)]
                  /\ procs' = Append(procs, VersionCommand(this'))
                  /\ pc' = "init_version"
                  /\ UNCHANGED ret
             ELSE /\ ret' = ThrownBecause(Attention, NotFound)
                  /\ pc' = "idle"
                  /\ UNCHANGED << this, procs >>
    /\ UNCHANGED << fsFiles, call, stats, tasks, echoes, exec, ready, calls, texts, history >>

\* `exiftool -ver` has finished: it printed the version, or it failed.
InitVersionDone ==
    /\ pc = "init_version"
    /\ \E ok \in BOOLEAN :
          /\ toolOut' = LineOutput(ok)
          /\ IF ok
             THEN InitProceed([this EXCEPT !._version = ChompLine(ExiftoolVer \o <<NL>>)],
                              call.arg, stats)
             ELSE /\ ret' = ThrownBecause(Attention, NotFound)
                  /\ pc' = "idle"
                  /\ UNCHANGED << this, stats, tasks >>
    /\ UNCHANGED << fsFiles, call, procs, echoes, exec, ready, calls, texts, history >>

\* init from `await this.hasExiftoolConfigFile()` to `return this`.  The call of
\* createExiftoolConfigFile is not awaited and neither is its cmd(echo): the
\* child process is started and init goes on.
InitConfig ==
    /\ pc = "init_config"
    /\ stats' = Append(stats, StatTarget(this._exiftool_config))
    /\ IF Stat(fsFiles, StatTarget(this._exiftool_config)) # "ENOENT"
       THEN UNCHANGED << procs, echoes >>
       ELSE /\ procs' = Append(procs, EchoCommand(this))
            /\ echoes' = echoes \cup { StatTarget(this._exiftool_config) }
    /\ ret' = Returned("this")
    /\ pc' = "idle"
    /\ ready' = TRUE
    /\ UNCHANGED << this, fsFiles, call, tasks, exec, toolOut, calls, texts, history >>

\* An `echo "..." > file` child process finishes: the file is written, or the
\* shell could not write it.
EchoDone ==
    /\ \E file \in echoes, written \in BOOLEAN :
          /\ fsFiles' = IF written THEN fsFiles \cup {file} ELSE fsFiles
          /\ texts' = IF written THEN WriteText(texts, file, StubLines) ELSE texts
          /\ echoes' = echoes \ {file}
    /\ UNCHANGED << this, pc, call, ret, procs, stats, tasks, exec, toolOut, ready,
                 calls, history >>

\* The stat of a suspended setPath has answered and its continuation runs.
SetPathResume ==
    /\ tasks # <<>>
    /\ \E i \in 1..Len(tasks) :
          LET task == tasks[i]
              answer == Stat(fsFiles, StatTarget(task.path))
          IN  /\ this' = setPathResume(this, task.path, answer)
              /\ tasks' = SubSeq(tasks, 1, i - 1) \o SubSeq(tasks, i + 1, Len(tasks))
              /\ IF task.owner = "init"
                 THEN pc' = "init_config" /\ UNCHANGED ret
                 ELSE IF task.owner = "setPath"
                 THEN pc' = "idle" /\ ret' = setPathRet(answer)
                 ELSE UNCHANGED << pc, ret >>
    /\ UNCHANGED << fsFiles, call, procs, stats, echoes, exec, toolOut, ready, calls,
                 texts, history >>

\* C8: when the PATH lookup of init fails, init throws the tool-not-installed
\* error (ATTENTION..., caused by the lookup's error) with the Target as it was
\* when init was called, with no stat made and no child process but the lookup
\* started, and with _executable still null; and an init that finds _executable
\* null starts with the lookup.
C8_LookupFailure ==
    /\ (call.op = "init" /\ Len(procs) = 1 /\ toolOut.status = "fail") =>
          /\ pc = "idle"
          /\ ret = ThrownBecause(Attention, NotFound)
          /\ this._executable = Null
          /\ this._path = call.path0
          /\ stats = <<>>
          /\ echoes = {}
          /\ procs = << WhichCommand(this) >>
    /\ (call.op = "init" /\ pc # "idle" /\ this._executable = Null) =>
          /\ pc = "init_which"
          /\ procs = << WhichCommand(this) >>

\* An init whose lookup failed is followed by an init that is at its lookup again.
C8_Witness ==
    /\ call.op = "init"
    /\ pc = "init_which"
    /\ ret = ThrownBecause(Attention, NotFound)
    /\ this._executable = Null

ExistingFiles(paths) == \A i \in 1..Len(paths) : Resolve(paths[i]) \in fsFiles

\* C9: after init(array of two or more paths to existing files) has resolved
\* with the instance, the Target is the paths, each resolved and in double
\* quotes, joined by single spaces, and the composed command ends with it.
C9_ArrayTarget ==
    ( /\ call.op = "init"
      /\ pc = "idle"
      /\ ret = Returned("this")
      /\ call.arg.kind = "array"
      /\ Len(call.arg.a) >= 2
      /\ ExistingFiles(call.arg.a) ) =>
        /\ this._path =
              JoinSp([i \in 1..Len(call.arg.a) |-> <<Q>> \o Resolve(call.arg.a[i]) \o <<Q>>])
        /\ EndsWith(this._command, <<SP>> \o this._path)

\* C10: whenever init has resolved with the instance, the config file exists at
\* the configured path.
C10_ConfigInPlace ==
    (call.op = "init" /\ pc = "idle" /\ ret = Returned("this")) =>
        Stat(fsFiles, StatTarget(this._exiftool_config)) = "file"

(***************************************************************************)
(* getMetadata                                                             *)
(***************************************************************************)
\* The elements of a result array.
RecordElem(i) == [t |-> "record", s |-> <<>>, n |-> i]
CommandElem(c) == [t |-> "exiftool_command", s |-> c, n |-> 0]
FormatElem(f) == [t |-> "format", s |-> <<f>>, n |-> 0]
IntElem(n) == [t |-> "int", s |-> <<>>, n |-> n]
UndefinedElem == [t |-> "undefined", s |-> <<>>, n |-> 0]
XmlElem(n) == [t |-> "xml", s |-> <<>>, n |-> n]
RawElem(n) == [t |-> "raw", s |-> <<"<?xml">>, n |-> n]

\* The value getMetadata resolves with: an array, or an Error that carries
\* the property exiftool_command.
ArrayResult(items) == [isError |-> FALSE, items |-> items, exiftool_command |-> Undefined]
ErrorResult(command) == [isError |-> TRUE, items |-> <<>>, exiftool_command |-> command]

\* JSON.parse(stdout) when the tool printed an array of n records.
Records(n) == [i \in 1..n |-> RecordElem(i)]

\* fileOrDir !== null && fileOrDir !== ''
HasOverride(fileOrDir) ==
    fileOrDir.kind = "array" \/ (fileOrDir.kind = "string" /\ fileOrDir.s # <<>>)

StripTag == << "-", "all=", SP >>

\* tagsToExtract.includes('-all= ')
IncludesStripTag(tags) == \E i \in 1..Len(tags) : tags[i] = ArgStr(StripTag)

\* tagsToExtract.flat()
RECURSIVE Flat(_)
Flat(tags) ==
    IF tags = <<>> THEN <<>>
    ELSE (IF Head(tags).kind = "array" THEN Head(tags).a ELSE << Head(tags).s >>)
         \o Flat(Tail(tags))

\* The object when getMetadata reaches `debug(this._command)` or throws: after
\* the start of setPath (not awaited), the shortcut and the tag list.
getMetadataPrepare(t, fileOrDir, shortcut, tags) ==
    LET t1 == IF HasOverride(fileOrDir) /\ PathQualified(PathToImage(fileOrDir))
              THEN [t EXCEPT !._path = PathToImage(fileOrDir)]
              ELSE t
        t2 == IF shortcut.kind = "string" /\ shortcut.s # <<>> THEN setShortcut(t1, shortcut)
              ELSE IF shortcut.kind = "null" THEN clearShortcut(t1)
              ELSE t1
    IN  IF Len(tags) > 0 /\ ~IncludesStripTag(tags)
        THEN setMetadataTags(t2, ArgArr(Flat(tags)))
        ELSE t2

\* this._opts.outputFormat.match(/(?<format>xml.*|json)/i)?.groups.format
ParsedFormat(t) ==
    IF OptGet(t._opts, "outputFormat") = <<"-json">> THEN "json"
    ELSE IF OptGet(t._opts, "outputFormat") = <<"-xmlFormat">> THEN "xmlFormat"
    ELSE "none"

\* What the external tool prints for a command: JSON, XML or plain text.
ToolFormat(command) ==
    IF Contains(command, <<"-json">>) THEN "json"
    ELSE IF Contains(command, <<"-xmlFormat">>) THEN "xml"
    ELSE "text"

\* JsonResult with the count taken after the trailers were pushed.
JsonResult_CountAfterPush(records, command) ==
    records \o << CommandElem(command), FormatElem("json"), IntElem(Len(records) + 2) >>

\* The array getMetadata builds in JSON mode from the parsed records.
JsonResult(records, command) ==
    records \o << CommandElem(command), FormatElem("json"), IntElem(Len(records)) >>

\* The array getMetadata builds in XML mode; `count` was never assigned.
XmlResult(n, command) ==
    << XmlElem(n), RawElem(n), FormatElem("xml"), CommandElem(command), UndefinedElem >>

\* What getMetadata resolves with once its child process has ended as `out`.
getMetadataResult(t, out) ==
    IF out.status # "ok" THEN ErrorResult(t._command)
    ELSE IF ParsedFormat(t) = "json"
         THEN IF out.format = "json"
              THEN ArrayResult(JsonResult(Records(out.n), t._command))
              ELSE ErrorResult(t._command)
    ELSE IF ParsedFormat(t) = "xmlFormat"
         THEN ArrayResult(XmlResult(out.n, t._command))
    ELSE ArrayResult(<<>>)

Detached == { i \in 1..Len(tasks) : tasks[i].owner = "detached" }

\* The caller calls getMetadata(fileOrDir, shortcut, ...tags).
GetMetadataCall(fileOrDir, shortcut, tags) ==
    /\ pc = "idle"
    /\ ready
    /\ HasOverride(fileOrDir) => Cardinality(Detached) < MaxPending
    /\ call' = [NoCall EXCEPT !.op = "getMetadata", !.arg = fileOrDir,
                              !.shortcut = shortcut, !.tags = tags, !.path0 = this._path]
    /\ this' = getMetadataPrepare(this, fileOrDir, shortcut, tags)
    /\ IF HasOverride(fileOrDir) /\ PathQualified(PathToImage(fileOrDir))
       THEN /\ tasks' = Append(tasks, [path |-> PathToImage(fileOrDir), owner |-> "detached"])
            /\ stats' = << StatTarget(PathToImage(fileOrDir)) >>
       ELSE /\ tasks' = tasks
            /\ stats' = <<>>
    /\ IF Len(tags) > 0 /\ IncludesStripTag(tags)
       THEN /\ ret' = Thrown("Can't include metadata stripping -all= tag in get metadata reqeust.")
            /\ procs' = <<>>
            /\ exec' = Null
            /\ UNCHANGED pc
       ELSE IF this'._command = Null
       THEN /\ ret' = Returned(ErrorResult(Null))
            /\ procs' = <<>>
            /\ exec' = Null
            /\ UNCHANGED pc
       ELSE /\ exec' = this'._command
            /\ procs' = << this'._command >>
            /\ pc' = "gm_exec"
            /\ UNCHANGED ret
    /\ toolOut' = NoOutput
    /\ calls' = Counted(calls)
    /\ UNCHANGED << texts, history >>
    /\ UNCHANGED << fsFiles, echoes, ready >>

\* The child process of getMetadata has ended and getMetadata builds its result.
GetMetadataDone ==
    /\ pc = "gm_exec"
    /\ \E status \in {"ok", "stderr", "fail"} :
       \E n \in (IF status = "ok" THEN 0..MaxRecords ELSE {0}) :
          /\ toolOut' = [status |-> status, format |-> ToolFormat(exec), n |-> n]
          /\ ret' = Returned(getMetadataResult(this, toolOut'))
    /\ pc' = "idle"
    /\ UNCHANGED << this, fsFiles, call, procs, stats, tasks, echoes, exec, ready, calls,
                 texts, history >>

(***************************************************************************)
(* The calls that run to completion without suspending.                    *)
(***************************************************************************)
SyncCall2(op, arg, arg2, after, result) ==
    /\ pc = "idle"
    /\ ready
    /\ this' = after
    /\ call' = [NoCall EXCEPT !.op = op, !.arg = arg, !.shortcut = arg2,
                              !.path0 = this._path]
    /\ ret' = result
    /\ procs' = <<>>
    /\ stats' = <<>>
    /\ exec' = Null
    /\ toolOut' = NoOutput
    /\ calls' = Counted(calls)
    /\ UNCHANGED << texts, history >>
    /\ UNCHANGED << fsFiles, pc, tasks, echoes, ready >>

SyncCall(op, arg, after, result) == SyncCall2(op, arg, ArgUndefined, after, result)

CallSetOverwriteOriginal(enabled) ==
    SyncCall("setOverwriteOriginal", ArgBool(enabled),
             setOverwriteOriginal(this, enabled), Returned("undefined"))

CallEnableBinaryTagOutput(enabled) ==
    SyncCall("enableBinaryTagOutput", ArgBool(enabled),
             enableBinaryTagOutput(this, enabled), Returned("undefined"))

CallEnableXMPStructTagOutput(enabled) ==
    SyncCall("enableXMPStructTagOutput", ArgBool(enabled),
             enableXMPStructTagOutput(this, enabled), Returned("undefined"))

CallUseMWG(enabled) ==
    SyncCall("useMWG", ArgBool(enabled), useMWG(this, enabled), Returned("undefined"))

CallSetGPSCoordinatesOutputFormat(fmt) ==
    SyncCall("setGPSCoordinatesOutputFormat", ArgStr(fmt),
             setGPSCoordinatesOutputFormat(this, fmt), Returned("undefined"))

CallSetOutputFormat(fmt) ==
    SyncCall("setOutputFormat", ArgStr(fmt), setOutputFormat(this, fmt),
             setOutputFormatRet(this, fmt))

CallSetShortcut(shortcut) ==
    SyncCall("setShortcut", shortcut, setShortcut(this, shortcut),
             setShortcutRet(this, shortcut))

CallClearShortcut ==
    SyncCall("clearShortcut", ArgUndefined, clearShortcut(this), Returned("undefined"))

CallSetMetadataTags(tags) ==
    SyncCall("setMetadataTags", tags, setMetadataTags(this, tags),
             setMetadataTagsRet(this, tags))

CallSetExtensionsToExclude(add, remove) ==
    SyncCall2("setExtensionsToExclude", add, remove,
              setExtensionsToExclude(this, add, remove),
              IF setExtensionsToExcludeThrows(add, remove)
              THEN Thrown("Expecting an array of file extensions.")
              ELSE Returned("undefined"))

\* setConfigPath(newConfigPath), given the host's files.  Its one await, the
\* stat, separates the check from the assignments; no step of the model reads
\* the fields in between, so the call is one step.
setConfigPathFails(arg, files) ==
    \/ arg.kind \notin {"string"}
    \/ arg.s = <<>>
    \/ Stat(files, StatTarget(arg.s)) = "ENOENT"

\* setConfigPath that stores the path as it was given, without the quotes.
setConfigPath_Unquoted(t, arg, files) ==
    IF setConfigPathFails(arg, files) THEN t
    ELSE setCommand([t EXCEPT !._exiftool_config = arg.s,
                              !._opts = OptPut(@, "exiftool_config",
                                               <<"-config", SP>> \o arg.s)])

setConfigPath(t, arg, files) ==
    IF setConfigPathFails(arg, files) THEN t
    ELSE LET config == IF StartsWithQuote(arg.s) THEN arg.s ELSE <<Q>> \o arg.s \o <<Q>>
         IN  setCommand([t EXCEPT !._exiftool_config = config,
                                  !._opts = OptPut(@, "exiftool_config",
                                                   <<"-config", SP>> \o config)])

setConfigPathRet(arg, files) ==
    IF arg.kind = "null" \/ (arg.kind = "string" /\ arg.s = <<>>)
    THEN Returned(Obj("null", "A valid file system path to an exiftool.config file is required."))
    ELSE IF setConfigPathFails(arg, files)
         THEN Returned(Obj("false", "ENOENT: no such file or directory"))
         ELSE Returned(Obj("true", "null"))

CallSetConfigPath(arg) ==
    /\ pc = "idle"
    /\ ready
    /\ this' = setConfigPath(this, arg, fsFiles)
    /\ call' = [NoCall EXCEPT !.op = "setConfigPath", !.arg = arg, !.path0 = this._path]
    /\ ret' = setConfigPathRet(arg, fsFiles)
    /\ procs' = <<>>
    /\ stats' = IF arg.kind = "string" /\ arg.s # <<>> THEN << StatTarget(arg.s) >> ELSE <<>>
    /\ exec' = Null
    /\ toolOut' = NoOutput
    /\ calls' = Counted(calls)
    /\ UNCHANGED << texts, history >>
    /\ UNCHANGED << fsFiles, pc, tasks, echoes, ready >>

\* The caller calls setPath(arg) and awaits it.
CallSetPath(arg) ==
    /\ pc = "idle"
    /\ ready
    /\ call' = [NoCall EXCEPT !.op = "setPath", !.arg = arg, !.path0 = this._path]
    /\ procs' = <<>>
    /\ IF setPathNoPath(arg)
       THEN /\ ret' = Returned(Obj("null", "A path to image or directory is required."))
            /\ stats' = <<>>
            /\ UNCHANGED << this, pc, tasks >>
       ELSE IF ~PathQualified(PathToImage(arg))
       THEN /\ ret' = Thrown("The file system path to image must be a fully qualified path")
            /\ stats' = <<>>
            /\ UNCHANGED << this, pc, tasks >>
       ELSE /\ this' = [this EXCEPT !._path = PathToImage(arg)]
            /\ tasks' = Append(tasks, [path |-> PathToImage(arg), owner |-> "setPath"])
            /\ stats' = << StatTarget(PathToImage(arg)) >>
            /\ pc' = "setPath_stat"
            /\ UNCHANGED ret
    /\ exec' = Null
    /\ toolOut' = NoOutput
    /\ calls' = Counted(calls)
    /\ UNCHANGED << texts, history >>
    /\ UNCHANGED << fsFiles, echoes, ready >>

InitArgs ==
    { ArgUndefined, ArgNull, ArgStr(<<>>), ArgStr(FileA), ArgStr(Missing), ArgStr(DirD),
      ArgStr(RelC), ArgArr(<< FileA, FileB >>) }

NextInit ==
    \/ \E arg \in InitArgs : InitCall(arg)
    \/ InitWhichDone
    \/ InitVersionDone
    \/ InitConfig
    \/ SetPathResume
    \/ EchoDone

SpecInit == Init /\ [][NextInit]_vars

(***************************************************************************)
(* init, setOutputFormat and getMetadata.                                  *)
(***************************************************************************)
MetaOverrides == { ArgNull, ArgStr(FileB), ArgStr(Missing) }
MetaShortcuts == { ArgStr(<<>>), ArgNull }
MetaTags ==
    { <<>>,
      << ArgStr(StripTag) >>,
      << ArgStr(<< "-", "all=" >>) >>,
      << ArgArr(<< StripTag >>) >> }

InitSteps ==
    \/ InitWhichDone
    \/ InitVersionDone
    \/ InitConfig
    \/ SetPathResume

NextMeta ==
    \/ InitCall(ArgStr(FileA))
    \/ InitSteps
    \/ \E fileOrDir \in MetaOverrides, shortcut \in MetaShortcuts, tags \in MetaTags :
          GetMetadataCall(fileOrDir, shortcut, tags)
    \/ GetMetadataDone
    \/ \E fmt \in { <<"x","m","l">>, <<"j","s","o","n">> } : CallSetOutputFormat(fmt)

Spec == InitInstalled /\ [][NextMeta]_vars

(***************************************************************************)
(* init, the output toggles and getMetadata() with its defaults.           *)
(***************************************************************************)
NextToggles ==
    \/ InitCall(ArgStr(FileA))
    \/ InitSteps
    \/ GetMetadataCall(ArgNull, ArgStr(<<>>), <<>>)
    \/ GetMetadataDone
    \/ \E enabled \in BOOLEAN : CallEnableBinaryTagOutput(enabled)
    \/ \E enabled \in BOOLEAN : CallEnableXMPStructTagOutput(enabled)
    \/ \E enabled \in BOOLEAN : CallUseMWG(enabled)
    \/ \E fmt \in { <<"g","p","s">>, <<"d","e","f","a","u","l","t">> } :
          CallSetGPSCoordinatesOutputFormat(fmt)

SpecToggles == InitInstalled /\ [][NextToggles]_vars

(***************************************************************************)
(* init and the calls that change the option set or the Target.            *)
(***************************************************************************)
\* The caller has calls left to make.
Budget == calls < MaxCalls

NextCommand ==
    \/ Budget /\ InitCall(ArgStr(FileA))
    \/ InitSteps
    \/ \E arg \in { ArgStr(FileB), ArgStr(Missing), ArgNull } : Budget /\ CallSetPath(arg)
    \/ \E arg \in { ArgStr(AltConfig), ArgStr(Missing) } : Budget /\ CallSetConfigPath(arg)
    \/ Budget /\ CallSetOutputFormat(<<"x","m","l">>)
    \/ \E shortcut \in { ArgStr(<<"Common">>), ArgNull } : Budget /\ CallSetShortcut(shortcut)
    \/ Budget /\ CallClearShortcut
    \/ \E tags \in { ArgStr(<<"-","Make">>), ArgNull } : Budget /\ CallSetMetadataTags(tags)
    \/ Budget /\ CallEnableBinaryTagOutput(TRUE)
    \/ Budget /\ CallEnableXMPStructTagOutput(TRUE)
    \/ Budget /\ CallUseMWG(TRUE)
    \/ Budget /\ CallSetGPSCoordinatesOutputFormat(<<"g","p","s">>)
    \/ Budget /\ CallSetExtensionsToExclude(ArgArr(<< <<"g","i","f">> >>), ArgNull)

SpecCmd == InitInstalled /\ [][NextCommand]_vars

\* The caller's last call has completed, on an instance whose init resolved.
Settled == ready /\ pc = "idle" /\ tasks = <<>>

\* C3: once init has resolved, after every completed call of the calls that
\* change the option set or the Target, the stored command is the executable
\* path, a space, getOptions() of the current option set, a space and the
\* current Target.
C3_CommandCurrent ==
    Settled => this._command = ComposeCommand(this)

(***************************************************************************)
(* Claims about getMetadata, checked under Spec.                           *)
(***************************************************************************)
\* C1: a getMetadata call with a target override that differs from the current
\* Target, the default shortcut argument and no tags gives its child process a
\* command that ends with the override path and not with the previous Target.
C1_OverrideInCommand ==
    ( /\ call.op = "getMetadata"
      /\ pc = "gm_exec"
      /\ call.arg.kind = "string"
      /\ HasOverride(call.arg)
      /\ PathToImage(call.arg) # call.path0
      /\ call.shortcut = ArgStr(<<>>)
      /\ call.tags = <<>> ) =>
        /\ EndsWith(exec, <<SP>> \o PathToImage(call.arg))
        /\ ~EndsWith(exec, <<SP>> \o ToStr(call.path0))

\* -all= followed by any number of spaces
IsFullStrip(tag) ==
    /\ Len(tag) >= 2
    /\ tag[1] = "-"
    /\ tag[2] = "all="
    /\ \A i \in 3..Len(tag) : tag[i] = SP

HasFullStrip(tags) ==
    \E i \in 1..Len(tags) :
        \/ tags[i].kind = "string" /\ IsFullStrip(tags[i].s)
        \/ tags[i].kind = "array" /\ \E j \in 1..Len(tags[i].a) : IsFullStrip(tags[i].a[j])

\* C4: a getMetadata call whose tags include -all=, as an argument or inside an
\* array argument, with or without trailing spaces, throws and starts no child
\* process.
C4_FullStripRejected ==
    (call.op = "getMetadata" /\ HasFullStrip(call.tags)) =>
        /\ pc = "idle"
        /\ ret.kind = "throw"
        /\ procs = <<>>

\* The exiftool_command attached to what getMetadata resolved with: the
\* property of the error, or the trailer of the array.
AttachedCommand(result) ==
    IF result.isError THEN result.exiftool_command
    ELSE IF \E i \in 1..Len(result.items) : result.items[i].t = "exiftool_command"
         THEN result.items[CHOOSE i \in 1..Len(result.items) :
                                result.items[i].t = "exiftool_command"].s
         ELSE Undefined

\* A getMetadata call that started its child process has resolved.
GetMetadataRan == call.op = "getMetadata" /\ pc = "idle" /\ procs # <<>>

\* C5: the exiftool_command attached to the outcome of a getMetadata call that
\* started a child process is the command string given to that process.
C5_AttachedIsExecuted ==
    GetMetadataRan => AttachedCommand(ret.val) = procs[1]

C7_XmlShape ==
    (GetMetadataRan /\ toolOut.status = "ok" /\ ParsedFormat(this) = "xmlFormat") =>
        ret.val.items = << XmlElem(toolOut.n), RawElem(toolOut.n), FormatElem("xml"),
                           CommandElem(this._command), IntElem(toolOut.n) >>

(***************************************************************************)
(* Claims about the output toggles, checked under SpecToggles.             *)
(***************************************************************************)
\* The step is the start of a getMetadata() call with no arguments.
NoArgumentsCall ==
    /\ pc = "idle"
    /\ pc' = "gm_exec"
    /\ call'.op = "getMetadata"
    /\ call'.arg = ArgNull
    /\ call'.shortcut = ArgStr(<<>>)
    /\ call'.tags = <<>>

\* The call before was op(arg).
LastCall(op, arg) == call.op = op /\ call.arg = arg

\* C2: the getMetadata() that follows enableBinaryTagOutput(true),
\* enableXMPStructTagOutput(true), useMWG(true) or
\* setGPSCoordinatesOutputFormat('gps') gives its child process a command that
\* contains -binary, -struct, -use MWG or -coordFormat %.6f respectively.
C2_FlagInNextCommand ==
    [][ NoArgumentsCall =>
          /\ LastCall("enableBinaryTagOutput", ArgBool(TRUE)) =>
                Contains(exec', <<"-binary">>)
          /\ LastCall("enableXMPStructTagOutput", ArgBool(TRUE)) =>
                Contains(exec', <<"-struct">>)
          /\ LastCall("useMWG", ArgBool(TRUE)) =>
                Contains(exec', <<"-use MWG">>)
          /\ LastCall("setGPSCoordinatesOutputFormat", ArgStr(<<"g","p","s">>)) =>
                Contains(exec', <<"-coordFormat %", ".6f">>) ]_vars

(***************************************************************************)
(* init and the synchronous setters of the option set.                     *)
(***************************************************************************)
OutputFormats ==
    { <<"x","m","l">>, <<"j","s","o","n">>, <<"X","M","L">>, <<"J","s","o","n">>,
      <<"b","m","p">> }

TagArgs ==
    { ArgStr(<<"Make">>), ArgStr(<<"-","Make">>), ArgArr(<< <<"Make">>, <<"-","Model">> >>),
      ArgStr(<<>>), ArgNull, ArgUndefined }

NextSetters ==
    \/ Budget /\ InitCall(ArgStr(FileA))
    \/ InitSteps
    \/ \E fmt \in OutputFormats : Budget /\ CallSetOutputFormat(fmt)
    \/ \E tags \in TagArgs : Budget /\ CallSetMetadataTags(tags)
    \/ \E enabled \in BOOLEAN : Budget /\ CallUseMWG(enabled)

SpecSetters == InitInstalled /\ [][NextSetters]_vars

\* The step is the caller's call op(...).
CallStep(op) == pc = "idle" /\ calls' = calls + 1 /\ call'.op = op

\* The format a string names, letter case aside.
NamedFormat(fmt) ==
    IF toLowerCase(fmt) = <<"x","m","l">> THEN "xml"
    ELSE IF toLowerCase(fmt) = <<"j","s","o","n">> THEN "json"
    ELSE "none"

\* C11: setOutputFormat(fmt) for a string that names neither xml nor json
\* returns false, does not throw, and leaves the output-format option and the
\* composed command as they were; for xml or json in any letter case it returns
\* true and sets the flag of that format, -xmlFormat or -json.
C11_SetOutputFormat ==
    [][ CallStep("setOutputFormat") =>
          IF NamedFormat(call'.arg.s) = "none"
          THEN /\ ret' = Returned("false")
               /\ OptGet(this'._opts, "outputFormat") = OptGet(this._opts, "outputFormat")
               /\ this'._command = this._command
          ELSE /\ ret' = Returned("true")
               /\ OptGet(this'._opts, "outputFormat") =
                     IF NamedFormat(call'.arg.s) = "xml" THEN <<"-xmlFormat">>
                     ELSE <<"-json">> ]_vars

\* The tag with one flag marker in front unless it has one.
WithMarker(tag) == IF tag # <<>> /\ Head(tag) = "-" THEN tag ELSE <<"-">> \o tag

\* C12: after a setMetadataTags that succeeded, the stored tag list is the
\* given tags, each with exactly one '-' prepended if it came without and
\* unchanged if it came with it, for an array of strings and for one string.
C12_TagsMarked ==
    (call.op = "setMetadataTags" /\ pc = "idle" /\ ret = Returned(Obj("true", "null"))) =>
        OptGet(this._opts, "tagList") =
            IF call.arg.kind = "array"
            THEN JoinSp([i \in 1..Len(call.arg.a) |-> WithMarker(call.arg.a[i])])
            ELSE WithMarker(call.arg.s)

\* C13: setMetadataTags('') , setMetadataTags(null) and setMetadataTags(undefined)
\* return an object with a non-null error, do not throw, and leave the tag-list
\* option and the composed command as they were.
C13_EmptyTagsRejected ==
    [][ (CallStep("setMetadataTags") /\ call'.arg \in {ArgStr(<<>>), ArgNull, ArgUndefined}) =>
          /\ ret'.kind = "return"
          /\ ret'.val.error # "null"
          /\ OptGet(this'._opts, "tagList") = OptGet(this._opts, "tagList")
          /\ this'._command = this._command ]_vars

\* C14: useMWG(false) right after useMWG(true) leaves an option set that
\* getOptions serializes without -use MWG and that is the one from before
\* useMWG(true): the MWG option empty again, every other option as it is, and
\* no option added.
C14_MWGToggle ==
    [][ (LastCall("useMWG", ArgBool(TRUE)) /\ CallStep("useMWG")
                                           /\ call'.arg = ArgBool(FALSE)) =>
          /\ ~Contains(getOptions(this'), <<"-use MWG">>)
          /\ this'._opts = OptPut(this._opts, "useMWG", <<>>) ]_vars

(***************************************************************************)
(* init and the exclusion list.                                            *)
(***************************************************************************)
\* getExtensionsToExclude() returns the list itself, not a copy: the caller
\* pushes ext onto what it got.
PushOntoExtensions(ext) ==
    SyncCall("getExtensionsToExclude", ArgStr(ext),
             [this EXCEPT !._extensionsToExclude = Append(@, ext)], Returned("array"))

ExtensionsToAdd == { ArgNull, ArgArr(<< <<"g","i","f">> >>), ArgArr(<< <<"C","S","S">> >>) }
ExtensionsToRemove ==
    { ArgNull, ArgArr(<< <<"c","j","s">> >>), ArgArr(<< <<"T","X","T">> >>),
      ArgArr(<< <<"g","i","f">> >>) }

NextExtensions ==
    \/ Budget /\ InitCall(ArgStr(DirD))
    \/ InitSteps
    \/ \E add \in ExtensionsToAdd, remove \in ExtensionsToRemove :
          Budget /\ CallSetExtensionsToExclude(add, remove)
    \/ Budget /\ PushOntoExtensions(<<"C","O","N","F","I","G">>)
    \/ Budget /\ CallSetExtensionsToExclude(ArgArr(this._extensionsToExclude), ArgNull)

SpecExtensions == InitInstalled /\ [][NextExtensions]_vars

\* x and y are the same extension, letter case aside.
SameExtension(x, y) == toLowerCase(x) = toLowerCase(y)

Listed(exts, x) == \E i \in 1..Len(exts) : SameExtension(exts[i], x)

\* C15: setExtensionsToExclude(null, [x]) for an x that is in the exclusion
\* list, letter case aside and at any position, leaves a list without x that
\* has every other extension it had, and an exclusion string with no --ext
\* pair for x.
C15_ExtensionRemoved ==
    [][ ( /\ CallStep("setExtensionsToExclude")
          /\ call'.arg = ArgNull
          /\ call'.shortcut.kind = "array"
          /\ Len(call'.shortcut.a) = 1
          /\ Listed(this._extensionsToExclude, call'.shortcut.a[1]) ) =>
        LET x == call'.shortcut.a[1]
            before == this._extensionsToExclude
            after == this'._extensionsToExclude
        IN  /\ ~Listed(after, x)
            /\ \A i \in 1..Len(before) :
                  ~SameExtension(before[i], x) => \E j \in 1..Len(after) : after[j] = before[i]
            /\ \A i \in 1..Len(before) :
                  SameExtension(before[i], x) =>
                      ~Contains(OptGet(this'._opts, "excludeTypes"),
                                <<"--ext ">> \o before[i] \o <<SP>>) ]_vars

\* C16: after every setExtensionsToExclude call the exclusion string is one
\* --ext pair per extension of the list, and the list is in case-insensitive
\* lexical order with no extension twice, letter case aside.
C16_ExclusionString ==
    (call.op = "setExtensionsToExclude" /\ pc = "idle" /\ ret.kind = "return") =>
        /\ OptGet(this._opts, "excludeTypes") = ExcludeString(this._extensionsToExclude)
        /\ \A i \in 1..(Len(this._extensionsToExclude) - 1) :
              StrLess(toLowerCase(this._extensionsToExclude[i]),
                      toLowerCase(this._extensionsToExclude[i + 1]))

(***************************************************************************)
(* stripMetadata.                                                          *)
(***************************************************************************)
\* The command stripMetadata composes.
StripCommand(t) ==
    ToStr(t._executable) \o <<SP, "-config", SP>> \o ToStr(t._exiftool_config) \o <<SP>>
        \o ToStr(OptGet(t._opts, "overwrite_original")) \o <<SP, "-", "all=", SP>>
        \o ToStr(t._path)

\* The object stripMetadata returns: { value, error, command } and, on some
\* paths, original.
StripResult(t, command, file, updated) ==
    [value |-> IF updated THEN "true" ELSE "false",
     error |-> IF updated THEN "null" ELSE "Error",
     command |-> command,
     original |-> IF updated /\ OptGet(t._opts, "overwrite_original") = <<>>
                  THEN file \o <<"_original">> ELSE Undefined]

\* The caller calls stripMetadata().
StripMetadataCall ==
    /\ pc = "idle"
    /\ ready
    /\ call' = [NoCall EXCEPT !.op = "stripMetadata", !.path0 = this._path]
    /\ stats' = <<>>
    /\ toolOut' = NoOutput
    /\ calls' = Counted(calls)
    /\ UNCHANGED << texts, history >>
    /\ IF this._path = Null
       THEN /\ ret' = Thrown("No image was specified to strip all metadata from.")
            /\ procs' = <<>>
            /\ exec' = Null
            /\ UNCHANGED pc
       ELSE IF this._isDirectory = "true"
       THEN /\ ret' = Thrown("A directory was given.  Use a path to a specific file instead.")
            /\ procs' = <<>>
            /\ exec' = Null
            /\ UNCHANGED pc
       ELSE /\ procs' = << StripCommand(this) >>
            /\ exec' = StripCommand(this)
            /\ pc' = "strip_exec"
            /\ UNCHANGED ret
    /\ UNCHANGED << this, fsFiles, tasks, echoes, ready >>

\* The tool has finished: it rewrote the file and printed '1 image files
\* updated' (keeping the old file as <file>_original unless told to overwrite),
\* printed something else, or exited with an error.
StripMetadataDone ==
    /\ pc = "strip_exec"
    /\ \E status \in {"ok", "other", "fail"} :
          /\ status = "ok" => StatTarget(call.path0) \in fsFiles
          /\ toolOut' = [status |-> status, format |-> "text", n |-> 0]
          /\ ret' = Returned(StripResult(this, exec, ToStr(call.path0), status = "ok"))
          /\ fsFiles' = IF status = "ok" /\ ~Contains(exec, <<"-overwrite_original">>)
                        THEN fsFiles \cup { StatTarget(call.path0) \o <<"_original">> }
                        ELSE fsFiles
    /\ pc' = "idle"
    /\ UNCHANGED << this, call, procs, stats, tasks, echoes, exec, ready, calls, texts, history >>

NextStrip ==
    \/ \E arg \in { ArgStr(FileA), ArgStr(DirD), ArgStr(Missing) } : Budget /\ InitCall(arg)
    \/ InitSteps
    \/ \E enabled \in BOOLEAN : Budget /\ CallSetOverwriteOriginal(enabled)
    \/ Budget /\ StripMetadataCall
    \/ StripMetadataDone

SpecStrip == InitInstalled /\ [][NextStrip]_vars

\* stripMetadata has resolved with value true.
Stripped ==
    /\ call.op = "stripMetadata"
    /\ pc = "idle"
    /\ ret.kind = "return"
    /\ ret.val.value = "true"

\* C17: when stripMetadata succeeds on a file Target with overwrite disabled,
\* the result's original is the absolute path of the target file followed by
\* _original; with overwrite enabled the command contains -overwrite_original
\* and the result has no original.
C17_StripOriginal ==
    Stripped =>
        IF OptGet(this._opts, "overwrite_original") = <<>>
        THEN ret.val.original = StatTarget(this._path) \o <<"_original">>
        ELSE Contains(exec, <<"-overwrite_original">>) /\ ret.val.original = Undefined

(***************************************************************************)
(* hasShortcut, addShortcut and removeShortcut: grep and sed on the config  *)
(* file.                                                                   *)
(***************************************************************************)
\* The config file, its backup, and the lines of a file (Null: no such file).
ConfigFile(t) == StatTarget(t._exiftool_config)
BackupFile(t) == ConfigFile(t) \o <<".bk">>
FileLines(files, t, p) == IF p \in files /\ p \in DOMAIN t THEN t[p] ELSE Null

\* grep -i "word": the line has the word, letter case aside.
GrepI(line, word) == Contains(toLowerCase(line), toLowerCase(word))

\* sed "2i\    text,": the line goes in before line 2, when there is a line 2.
SedInsert2(lines, text) ==
    IF Len(lines) < 2 THEN lines
    ELSE << lines[1], <<"    ">> \o text \o <<",">> >> \o SubSeq(lines, 2, Len(lines))

\* sed "/word/d": the lines that have the word, as it is spelt, go. The words
\* tried are letters only, so the regular expression matches as the word does.
RECURSIVE SedDelete(_, _)
SedDelete(lines, word) ==
    IF lines = <<>> THEN <<>>
    ELSE (IF Contains(Head(lines), word) THEN <<>> ELSE << Head(lines) >>)
            \o SedDelete(Tail(lines), word)

\* `${shortcut}` for the argument of a shortcut call.
ArgText(arg) == IF arg.kind = "undefined" THEN ToStr(Undefined) ELSE arg.s

\* The caller calls one of hasShortcut, addShortcut, removeShortcut with a
\* string, or with nothing (arg is Undefined).
ShortcutCall(op, arg, command) ==
    /\ pc = "idle"
    /\ call' = [NoCall EXCEPT !.op = op,
                              !.arg = IF arg = Undefined THEN ArgUndefined ELSE ArgStr(arg),
                              !.path0 = this._path,
                              !.text0 = FileLines(fsFiles, texts, ConfigFile(this))]
    /\ stats' = <<>>
    /\ toolOut' = NoOutput
    /\ calls' = Counted(calls)
    /\ IF arg = <<>> /\ op # "hasShortcut"
       THEN /\ ret' = Returned(Obj("null", "Shortcut name must be provided as a string."))
            /\ history' = Append(history, [op |-> op, arg |-> ToStr(arg), val |-> "null",
                                           text0 |-> call'.text0])
            /\ procs' = <<>>
            /\ exec' = Null
            /\ UNCHANGED pc
       ELSE /\ procs' = << command \o <<SP>> \o ToStr(this._exiftool_config) >>
            /\ exec' = procs'[1]
            /\ pc' = op
            /\ UNCHANGED << ret, history >>
    /\ UNCHANGED << this, fsFiles, tasks, echoes, ready, texts >>

HasShortcutCall(shortcut) ==
    ShortcutCall("hasShortcut", shortcut, <<"grep -i ", Q>> \o ToStr(shortcut) \o <<Q>>)

AddShortcutCall(newShortcut) ==
    ShortcutCall("addShortcut", newShortcut,
                 <<"sed -i.bk ", Q, "2i\\    ">> \o ToStr(newShortcut) \o <<",", Q>>)

RemoveShortcutCall(shortcut) ==
    ShortcutCall("removeShortcut", shortcut,
                 <<"sed -i.bk ", Q, "/">> \o ToStr(shortcut) \o <<"/d", Q>>)

\* grep has finished: it printed the matching lines, or exited with 1 or 2.
HasShortcutDone ==
    /\ pc = "hasShortcut"
    /\ LET lines == FileLines(fsFiles, texts, ConfigFile(this))
           exists == lines # Null /\ \E i \in 1..Len(lines) : GrepI(lines[i], ArgText(call.arg))
       IN  /\ toolOut' = LineOutput(exists)
           /\ ret' = Returned(IF exists THEN "true" ELSE "false")
           /\ history' = Append(history, [op |-> call.op, arg |-> ArgText(call.arg),
                                          val |-> ret'.val, text0 |-> call.text0])
    /\ pc' = "idle"
    /\ UNCHANGED << this, fsFiles, call, procs, stats, tasks, echoes, exec, ready, calls,
                    texts >>

\* sed has finished: it copied the file to the backup and edited the file in
\* place, possibly with a message on stderr, or it exited with an error.
SedDone ==
    /\ pc \in {"addShortcut", "removeShortcut"}
    /\ LET file == ConfigFile(this)
           lines == FileLines(fsFiles, texts, file)
           edited == IF pc = "addShortcut" THEN SedInsert2(lines, ArgText(call.arg))
                     ELSE SedDelete(lines, ArgText(call.arg))
       IN  \E status \in (IF lines = Null THEN {"fail"} ELSE {"ok", "stderr", "fail"}) :
             /\ toolOut' = [status |-> status, format |-> "text", n |-> 0]
             /\ ret' = Returned(CASE status = "ok" -> Obj("true", "null")
                                  [] status = "stderr" -> Obj("false", "stderr")
                                  [] OTHER -> Obj("null", "null"))
             /\ IF status = "fail"
                THEN UNCHANGED << fsFiles, texts >>
                ELSE /\ fsFiles' = fsFiles \cup { BackupFile(this) }
                     /\ texts' = WriteText(WriteText(texts, BackupFile(this), lines),
                                           file, edited)
             /\ history' = Append(history, [op |-> call.op, arg |-> ArgText(call.arg),
                                            val |-> ret'.val.value, text0 |-> call.text0])
    /\ pc' = "idle"
    /\ UNCHANGED << this, call, procs, stats, tasks, echoes, exec, ready, calls >>

NewShortcut == << "N","e","w" >>
NewShortcutDefinition == NewShortcut \o << " => ['exif:Make']" >>
ShortcutNames == { NewShortcut, << "n","e","w" >> }

NextShortcuts ==
    \/ Budget /\ InitCall(ArgStr(FileA))
    \/ InitSteps
    \/ EchoDone
    \/ \E shortcut \in ShortcutNames : Budget /\ HasShortcutCall(shortcut)
    \/ \E newShortcut \in { NewShortcutDefinition, <<>>, Undefined } :
          Budget /\ AddShortcutCall(newShortcut)
    \/ \E shortcut \in ShortcutNames \cup { <<>>, Undefined } :
          Budget /\ RemoveShortcutCall(shortcut)
    \/ HasShortcutDone
    \/ SedDone

SpecShortcuts == InitWith({Undefined}, {FALSE}, BOOLEAN) /\ [][NextShortcuts]_vars

\* The name a shortcut definition defines: what comes before ' => [...]'.
DefinedName(definition) == SubSeq(definition, 1, Len(definition) - 1)

\* The entry of the history is a call of op that returned value.
Completed(entry, op, value) == entry.op = op /\ entry.val = value

\* C18: when addShortcut of a definition named n succeeded on a config file
\* that had no line with n, a hasShortcut(n) that follows returns true; and
\* when a removeShortcut(m) succeeded after it, m being n letter case aside, a
\* hasShortcut(m) that follows returns false.
C18_AddHasRemoveHas ==
    \A i \in 1..Len(history) :
        LET n == DefinedName(history[i].arg)
            Asks(k, name) == k <= Len(history) /\ history[k].op = "hasShortcut"
                                               /\ history[k].arg = name
            OnlyAsked(from, to) == \A k \in from..to : history[k].op = "hasShortcut"
        IN  ( /\ Completed(history[i], "addShortcut", "true")
              /\ history[i].text0 # Null
              /\ \A l \in 1..Len(history[i].text0) : ~GrepI(history[i].text0[l], n) ) =>
                /\ Asks(i + 1, n) => history[i + 1].val = "true"
                /\ \A j \in (i + 1)..Len(history) :
                      ( /\ Completed(history[j], "removeShortcut", "true")
                        /\ toLowerCase(history[j].arg) = toLowerCase(n)
                        /\ OnlyAsked(i + 1, j - 1)
                        /\ Asks(j + 1, history[j].arg) ) => history[j + 1].val = "false"

\* addShortcut or removeShortcut has returned an object with value true.
Edited(op) ==
    /\ call.op = op
    /\ pc = "idle"
    /\ ret.kind = "return"
    /\ ret.val.value = "true"

\* old is lines without one of its lines, or lines itself.
LineInserted(lines, old) ==
    \/ lines = old
    \/ \E k \in 1..Len(lines) : SubSeq(lines, 1, k - 1) \o SubSeq(lines, k + 1, Len(lines)) = old

\* lines is old without some of its lines that have the name.
RECURSIVE LinesDeleted(_, _, _)
LinesDeleted(lines, old, name) ==
    IF old = <<>> THEN lines = <<>>
    ELSE \/ lines # <<>> /\ Head(lines) = Head(old) /\ LinesDeleted(Tail(lines), Tail(old), name)
         \/ GrepI(Head(old), name) /\ LinesDeleted(lines, Tail(old), name)

\* C19: after an addShortcut or removeShortcut that returned value true, the
\* file <config>.bk exists and holds what the config file held just before the
\* call, and the config file holds the same lines but for the inserted line
\* (add) or the lines with the name (remove).
C19_BackupKept ==
    (Edited("addShortcut") \/ Edited("removeShortcut")) =>
        /\ FileLines(fsFiles, texts, BackupFile(this)) # Null
        /\ FileLines(fsFiles, texts, BackupFile(this)) = call.text0
        /\ IF call.op = "addShortcut"
           THEN LineInserted(FileLines(fsFiles, texts, ConfigFile(this)), call.text0)
           ELSE LinesDeleted(FileLines(fsFiles, texts, ConfigFile(this)), call.text0,
                             call.arg.s)

\* C20: when the sed of addShortcut or removeShortcut exited with an error,
\* the object returned has a value that is not true and an error that is not
\* null.
C20_FailureReported ==
    (call.op \in {"addShortcut", "removeShortcut"} /\ pc = "idle" /\ toolOut.status = "fail") =>
        /\ ret.val.value # "true"
        /\ ret.val.error # "null"

\* init has resolved, with false or with the instance.
InitResolved ==
    /\ call.op = "init"
    /\ pc = "idle"
    /\ ret.kind = "return"

\* C26: init returns false and leaves the Target null when it is called with
\* undefined, '' or null on an instance constructed without a path; and when
\* init resolves with the instance, the Target is a double-quoted absolute
\* path whose stat succeeded and the is-directory flag is a boolean.
C26_InitOutcome ==
    InitResolved =>
        /\ ( /\ call.path0 = Null
             /\ call.arg \in { ArgUndefined, ArgStr(<<>>), ArgNull } ) =>
                ret.val = "false" /\ this._path = Null
        /\ ret.val = "this" =>
                /\ this._path # Null
                /\ StartsWithQuote(this._path)
                /\ PathQualified(this._path)
                /\ Stat(fsFiles, StatTarget(this._path)) # "ENOENT"
                /\ this._isDirectory \in {"true", "false"}

\* C27: a call of a public operation, init included, starts at most one child
\* process.
C27_OneProcessPerCall == Len(procs) <= 1

OptionSetters ==
    { "setOutputFormat", "setShortcut", "clearShortcut", "setMetadataTags",
      "enableBinaryTagOutput", "setOverwriteOriginal", "enableXMPStructTagOutput",
      "setGPSCoordinatesOutputFormat", "useMWG" }

\* C29: a call of an option setter leaves the keys of the option set, and
\* their order, as the constructor made them, and changes the value of at most
\* one key.
C29_SetterFrame ==
    [][ \A op \in OptionSetters :
          CallStep(op) =>
              /\ OptKeys(this'._opts) = OptKeys(constructor(Undefined, FALSE)._opts)
              /\ Cardinality({ i \in 1..Len(this._opts) : this'._opts[i] # this._opts[i] }) <= 1
      ]_vars

(***************************************************************************)
(* init, setConfigPath and getConfigPath.                                  *)
(***************************************************************************)
\* The object getConfigPath returns.
getConfigPath(t) ==
    IF t._exiftool_config = <<>> \/ t._exiftool_config = Null
       \/ t._exiftool_config = Undefined
    THEN Obj("null", "No path set for the exiftool.config file.")
    ELSE IF StartsWithQuote(t._exiftool_config)
         THEN Obj(Slice1(t._exiftool_config), "null")
         ELSE Obj(t._exiftool_config, "null")

CallGetConfigPath ==
    SyncCall("getConfigPath", ArgUndefined, this, Returned(getConfigPath(this)))

ConfigPaths ==
    { ArgStr(AltConfig), ArgStr(SpaceyConfig), ArgStr(Missing), ArgStr(<<>>), ArgNull,
      ArgStr(<<Q>> \o AltConfig \o <<Q>>) }

NextConfig ==
    \/ Budget /\ InitCall(ArgStr(FileA))
    \/ InitSteps
    \/ \E arg \in ConfigPaths : Budget /\ CallSetConfigPath(arg)
    \/ Budget /\ CallGetConfigPath
    \/ \E fmt \in OutputFormats : Budget /\ CallSetOutputFormat(fmt)

SpecConfig == InitInstalled /\ [][NextConfig]_vars

\* C23: setConfigPath with a path whose stat fails returns value false with
\* the error and leaves _exiftool_config, the -config option and the command
\* as they were; with an existing path p that is not quoted it returns value
\* true, the command has p between double quotes and getConfigPath().value is p.
C23_SetConfigPath ==
    [][ CallStep("setConfigPath") =>
          LET p == call'.arg.s
              given == call'.arg.kind = "string" /\ p # <<>>
          IN  /\ (given /\ Stat(fsFiles, StatTarget(p)) = "ENOENT") =>
                    /\ ret'.val.value = "false"
                    /\ ret'.val.error = "ENOENT: no such file or directory"
                    /\ this'._exiftool_config = this._exiftool_config
                    /\ OptGet(this'._opts, "exiftool_config")
                          = OptGet(this._opts, "exiftool_config")
                    /\ this'._command = this._command
              /\ (given /\ ~StartsWithQuote(p) /\ Stat(fsFiles, p) # "ENOENT") =>
                    /\ ret'.val.value = "true"
                    /\ Contains(this'._command, <<Q>> \o p \o <<Q>>)
                    /\ getConfigPath(this').value = p
      ]_vars

C23_Witness ==
    /\ call.op = "setConfigPath"
    /\ call.arg = ArgStr(SpaceyConfig)
    /\ ret = Returned(Obj("true", "null"))
    /\ this._exiftool_config = <<Q>> \o SpaceyConfig \o <<Q>>
    /\ Contains(this._command, <<"-config", SP, Q>> \o SpaceyConfig \o <<Q>>)

\* C30: addShortcut and removeShortcut called with nothing or with '' return
\* at once an object whose error is not null, start no child process and leave
\* the config file and its backup as they were.
C30_MissingNameRejected ==
    [][ \A op \in {"addShortcut", "removeShortcut"} :
          ( /\ CallStep(op)
            /\ call'.arg.kind = "undefined" \/ call'.arg = ArgStr(<<>>) ) =>
                /\ procs' = <<>>
                /\ pc' = "idle"
                /\ ret'.kind = "return"
                /\ ret'.val.error # "null"
                /\ texts' = texts
                /\ fsFiles' = fsFiles
      ]_vars

(***************************************************************************)
(* The operations that compose their own command and give it to one child  *)
(* process: getXmpPacket, raw, writeMetadataToTag, clearMetadataFromTag,   *)
(* setLocation, nullIsland, nemo and stripLocation.                        *)
(***************************************************************************)
\* `${n}` for an integer.
NumStr(n) == IF n < 0 THEN << "-", ToString(-n) >> ELSE << ToString(n) >>

\* Arguments that are a number, and an object { latitude, longitude, city }.
ArgNum(n) == [kind |-> "number", s |-> NumStr(n), a |-> <<>>]
ArgCoords(lat, lon, city) ==
    [kind |-> "object", s |-> <<>>, a |-> <<>>, latitude |-> lat, longitude |-> lon,
     city |-> city]

\* The names an exiftool executable goes by at the end of a path.
ExiftoolNames == { "exiftool", "usr/bin/exiftool" }

\* query.match(/(^[/?].*exiftool\s)/): the query starts with / or ? and has
\* exiftool followed by white space.
RawMatch(query) ==
    /\ Len(query) >= 1
    /\ query[1] \in { "/", "?" }
    /\ \E i \in 1..(Len(query) - 1) : query[i] \in ExiftoolNames /\ query[i + 1] = SP

\* The fixed parts of the commands.
GpsAltitude == << SP, "-GPSAltitude=10000", SP, "-GPSAltitudeRef=0" >>
StripLocationTags ==
    << SP, "-gps:all= -XMP:LocationShown*= -XMP:LocationCreated*=  -XMP:Location= -XMP:City= -XMP:Country*= -IPTC:City= -IPTC:Province-State= -IPTC:Sub-location= -IPTC:Country*= " >>

\* -GPSLatitude=... -GPSLongitude=... with their references.
GpsAssignments(lat, latRef, lon, lonRef) ==
    << "-GPSLatitude=" >> \o lat \o << SP, "-GPSLatitudeRef=", latRef, SP, "-GPSLongitude=" >>
        \o lon \o << SP, "-GPSLongitudeRef=", lonRef >>

\* The command setLocation composes for coordinates.  Of the locality names
\* only city is given here; state, country, countryCode and location add their
\* tags in the same way.
LocationCommand(t, c) ==
    ToStr(t._executable) \o <<SP>>
    \o (IF c.latitude # 0 /\ c.longitude # 0
        THEN GpsAssignments(NumStr(c.latitude), IF c.latitude > 0 THEN "N" ELSE "S",
                            NumStr(c.longitude), IF c.longitude > 0 THEN "E" ELSE "W")
             \o GpsAltitude
             \o << SP, "-XMP:LocationShownGPSLatitude=" >> \o NumStr(c.latitude)
             \o << SP, "-XMP:LocationShownGPSLongitude=" >> \o NumStr(c.longitude)
        ELSE <<>>)
    \o (IF c.city # Undefined
        THEN << SP, "-IPTC:City='" >> \o c.city \o << "'", SP, "-XMP-iptcExt:LocationShownCity='" >>
             \o c.city \o << "'", SP, "-XMP:City='" >> \o c.city \o << "'" >>
        ELSE <<>>)
    \o << SP, "-struct", SP, "-codedcharacterset=utf8", SP >> \o ToStr(t._path)

\* metadataToWrite.join(' ') or the string itself.
TagString(arg) == IF arg.kind = "array" THEN JoinSp(arg.a) ELSE arg.s

\* The error an operation throws before it starts a child process; "none"
\* when it goes on to start one.
ToolRefuses(t, op, arg) ==
    IF op \in {"setLocation", "nullIsland", "nemo", "stripLocation"}
    THEN IF t._path = Null \/ t._path = <<>> THEN "No image file set yet." ELSE "none"
    ELSE IF op \in {"writeMetadataToTag", "clearMetadataFromTag"}
    THEN IF t._path = Null THEN "No image was specified."
         ELSE IF t._isDirectory = "true" THEN "A directory was given."
         ELSE IF arg.kind \notin {"string", "array"} THEN "Expected a string or an array of strings."
         ELSE "none"
    ELSE IF op = "raw"
    THEN IF arg.kind # "string" \/ arg.s = <<>>
         THEN "No query was provided for exiftool to execute."
         ELSE IF ~RawMatch(arg.s) /\ t._executable = Null
         THEN "No path to exiftool executable provided.  Include exiftool path in query."
         ELSE "none"
    ELSE "none"

\* The command the operation composes.
ToolCommand(t, op, arg) ==
    CASE op = "getXmpPacket" ->
            ToStr(t._executable) \o <<SP>> \o ToStr(OptGet(t._opts, "exiftool_config"))
                \o << SP, "-xmp", SP, "-b", SP >> \o ToStr(t._path)
      [] op = "setLocation" -> LocationCommand(t, arg)
      [] op = "nullIsland" ->
            ToStr(t._executable) \o <<SP>> \o GpsAssignments(<<"0">>, "S", <<"0">>, "W")
                \o GpsAltitude \o <<SP>> \o ToStr(t._path)
      [] op = "nemo" ->
            ToStr(t._executable) \o <<SP>>
                \o GpsAssignments(<<"22.319469">>, "S", <<"114.189505">>, "W")
                \o GpsAltitude \o <<SP>> \o ToStr(t._path)
      [] op = "stripLocation" ->
            ToStr(t._executable) \o <<SP>> \o ToStr(OptGet(t._opts, "overwrite_original"))
                \o StripLocationTags \o <<SP>> \o ToStr(t._path)
      [] op = "writeMetadataToTag" ->
            ToStr(t._executable) \o <<SP>> \o ToStr(OptGet(t._opts, "exiftool_config"))
                \o <<SP>> \o ToStr(OptGet(t._opts, "overwrite_original")) \o <<SP>>
                \o TagString(arg) \o <<SP>> \o ToStr(t._path)
      [] op = "clearMetadataFromTag" ->
            ToStr(t._executable) \o <<SP>> \o TagString(arg) \o <<SP>> \o ToStr(t._path)
      [] op = "raw" ->
            (IF RawMatch(arg.s) THEN <<>> ELSE ToStr(t._executable)) \o <<SP>> \o arg.s

\* What an operation hands back: a result or an Error object with the
\* properties the code sets on it.  cmd and message are those of the error that
\* a rejected exec carries ('Command failed: ' and the command).
Outcome(type, value) ==
    [type |-> type, value |-> value, command |-> Undefined, exiftool_command |-> Undefined,
     cmd |-> Undefined, message |-> <<>>]

ExecError(command) ==
    [Outcome("error", "null") EXCEPT !.cmd = command,
                                     !.message = <<"Command failed: ">> \o command]

\* What the operation resolves with or throws once its child process has ended
\* with status ok, stderr (it wrote to stderr and exited with 0), other (it
\* exited with 0 and printed something that is not a JSON array) or fail.
ToolResult(t, op, command, status) ==
    IF op = "getXmpPacket"
    THEN Returned(IF status = "ok"
                  THEN [Outcome("object", "null") EXCEPT !.exiftool_command = command]
                  ELSE IF status = "stderr"
                  THEN [Outcome("error", "null") EXCEPT !.exiftool_command = t._command]
                  ELSE [ExecError(command) EXCEPT !.exiftool_command = t._command])
    ELSE IF op \in {"setLocation", "nullIsland", "nemo", "stripLocation"}
    THEN IF status = "fail"
         THEN [kind |-> "throw", cause |-> "none",
               val |-> [Outcome("error", "null")
                           EXCEPT !.message = <<"Error: ">> \o ExecError(command).message]]
         ELSE Returned([Outcome("object", "null") EXCEPT !.exiftool_command = command])
    ELSE IF op \in {"writeMetadataToTag", "clearMetadataFromTag"}
    THEN Returned([Outcome("object", IF status = "fail" THEN "null" ELSE "true")
                      EXCEPT !.command = command,
                             !.cmd = IF status = "fail" THEN command ELSE Undefined])
    ELSE Returned([Outcome(IF status \in {"fail", "other"} THEN "error" ELSE "array", "null")
                      EXCEPT !.exiftool_command = command,
                             !.cmd = IF status = "fail" THEN command ELSE Undefined])

\* The caller calls op(arg).
ToolCall(op, arg) ==
    /\ pc = "idle"
    /\ call' = [NoCall EXCEPT !.op = op, !.arg = arg, !.path0 = this._path]
    /\ stats' = <<>>
    /\ toolOut' = NoOutput
    /\ calls' = Counted(calls)
    /\ IF ToolRefuses(this, op, arg) # "none"
       THEN /\ ret' = Thrown(ToolRefuses(this, op, arg))
            /\ procs' = <<>>
            /\ exec' = Null
            /\ UNCHANGED pc
       ELSE /\ procs' = << ToolCommand(this, op, arg) >>
            /\ exec' = ToolCommand(this, op, arg)
            /\ pc' = "tool_exec"
            /\ UNCHANGED ret
    /\ UNCHANGED << this, fsFiles, tasks, echoes, ready, texts, history >>

\* The child process has ended and the operation resolves or throws.
ToolDone ==
    /\ pc = "tool_exec"
    /\ \E status \in {"ok", "stderr", "other", "fail"} :
          /\ toolOut' = [status |-> status, format |-> "text", n |-> 0]
          /\ ret' = ToolResult(this, call.op, exec, status)
    /\ pc' = "idle"
    /\ UNCHANGED << this, fsFiles, call, procs, stats, tasks, echoes, exec, ready, calls,
                    texts, history >>

(***************************************************************************)
(* which and version, called by the caller.                                *)
(***************************************************************************)
\* The caller calls which().
WhichCall ==
    /\ pc = "idle"
    /\ call' = [NoCall EXCEPT !.op = "which", !.path0 = this._path]
    /\ stats' = <<>>
    /\ toolOut' = NoOutput
    /\ exec' = Null
    /\ calls' = Counted(calls)
    /\ IF this._executable # Null
       THEN /\ ret' = Returned(this._executable)
            /\ procs' = <<>>
            /\ UNCHANGED pc
       ELSE /\ procs' = << WhichCommand(this) >>
            /\ pc' = "which"
            /\ UNCHANGED ret
    /\ UNCHANGED << this, fsFiles, tasks, echoes, ready, texts, history >>

\* VersionCall without the test of the cached _version.
VersionCall_NoCache ==
    /\ pc = "idle"
    /\ call' = [NoCall EXCEPT !.op = "version", !.path0 = this._path]
    /\ stats' = <<>>
    /\ toolOut' = NoOutput
    /\ exec' = Null
    /\ calls' = Counted(calls)
    /\ IF this._executable # Null
       THEN /\ procs' = << VersionCommand(this) >>
            /\ pc' = "version"
            /\ UNCHANGED ret
       ELSE /\ procs' = << WhichCommand(this) >>
            /\ pc' = "version_which"
            /\ UNCHANGED ret
    /\ UNCHANGED << this, fsFiles, tasks, echoes, ready, texts, history >>

\* The caller calls version(): the cached version, or the lookup of the
\* executable when it is not cached, then `exiftool -ver`.
VersionCall ==
    /\ pc = "idle"
    /\ call' = [NoCall EXCEPT !.op = "version", !.path0 = this._path]
    /\ stats' = <<>>
    /\ toolOut' = NoOutput
    /\ exec' = Null
    /\ calls' = Counted(calls)
    /\ IF this._version # Null
       THEN /\ ret' = Returned(this._version)
            /\ procs' = <<>>
            /\ UNCHANGED pc
       ELSE IF this._executable # Null
       THEN /\ procs' = << VersionCommand(this) >>
            /\ pc' = "version"
            /\ UNCHANGED ret
       ELSE /\ procs' = << WhichCommand(this) >>
            /\ pc' = "version_which"
            /\ UNCHANGED ret
    /\ UNCHANGED << this, fsFiles, tasks, echoes, ready, texts, history >>

\* `which exiftool` of which() or of version() has finished.
WhichDone ==
    /\ pc \in {"which", "version_which"}
    /\ \E found \in (IF this._test THEN {FALSE} ELSE BOOLEAN) :
          /\ toolOut' = LineOutput(found)
          /\ IF ~found
             THEN /\ ret' = ThrownBecause(NotFound, "Command failed")
                  /\ pc' = "idle"
                  /\ UNCHANGED << this, procs >>
             ELSE /\ this' = [this EXCEPT !._executable = ChompLine(ExiftoolPath \o <<NL>>)]
                  /\ IF pc = "which"
                     THEN /\ ret' = Returned(this'._executable)
                          /\ pc' = "idle"
                          /\ UNCHANGED procs
                     ELSE /\ procs' = Append(procs, VersionCommand(this'))
                          /\ pc' = "version"
                          /\ UNCHANGED ret
    /\ UNCHANGED << fsFiles, call, stats, tasks, echoes, exec, ready, calls, texts, history >>

\* `exiftool -ver` of version() has finished.
VersionDone ==
    /\ pc = "version"
    /\ \E ok \in BOOLEAN :
          /\ toolOut' = LineOutput(ok)
          /\ IF ok
             THEN /\ this' = [this EXCEPT !._version = ChompLine(ExiftoolVer \o <<NL>>)]
                  /\ ret' = Returned(this'._version)
             ELSE /\ ret' = ThrownBecause(NotFound, "Command failed")
                  /\ UNCHANGED this
    /\ pc' = "idle"
    /\ UNCHANGED << fsFiles, call, procs, stats, tasks, echoes, exec, ready, calls, texts,
                    history >>

NextLookup ==
    \/ \E arg \in { ArgUndefined, ArgStr(FileA) } : Budget /\ InitCall(arg)
    \/ InitSteps
    \/ Budget /\ WhichCall
    \/ Budget /\ VersionCall
    \/ WhichDone
    \/ VersionDone
    \/ Budget /\ GetMetadataCall(ArgNull, ArgStr(<<>>), <<>>)
    \/ GetMetadataDone

SpecLookup == InitWith({Undefined}, BOOLEAN, {TRUE}) /\ [][NextLookup]_vars

\* The command is one of the two lookups.
IsLookup(command) ==
    \/ \E test \in BOOLEAN : command = WhichCommand([_test |-> test])
    \/ EndsWith(command, <<SP, "-ver">>)

\* C28: once _executable is not null it never changes, and an init, which or
\* version call made from then on starts no lookup process (which exiftool,
\* exiftool -ver).
C28_ResolvedOnce ==
    [][ this._executable # Null =>
          /\ this'._executable = this._executable
          /\ \A op \in {"init", "which", "version"} :
                CallStep(op) => \A i \in 1..Len(procs') : ~IsLookup(procs'[i])
      ]_vars

\* C28, amended: _executable and _version never change once they are not
\* null; which() starts no process once _executable is set, version() none
\* once _version is set, init no lookup once _executable is set; and no step
\* starts a lookup when both are set.
C28_CachedLookups ==
    [][ /\ this._executable # Null => this'._executable = this._executable
        /\ this._version # Null => this'._version = this._version
        /\ (CallStep("which") /\ this._executable # Null) => procs' = <<>>
        /\ (CallStep("version") /\ this._version # Null) => procs' = <<>>
        /\ (CallStep("init") /\ this._executable # Null) =>
              \A i \in 1..Len(procs') : ~IsLookup(procs'[i])
        /\ (this._executable # Null /\ this._version # Null) =>
              \A i \in 1..Len(procs') :
                  IsLookup(procs'[i]) => i <= Len(procs) /\ procs[i] = procs'[i]
      ]_vars

C28_Witness ==
    /\ call.op = "version"
    /\ pc = "idle"
    /\ calls >= 2
    /\ procs = <<>>
    /\ this._version # Null
    /\ ret = Returned(this._version)

(***************************************************************************)
(* init and the operations that run the tool.                              *)
(***************************************************************************)
RawQueries ==
    { ArgStr(ExiftoolPath \o << SP, "-ver" >>), ArgStr(<< "./", "exiftool", SP, "-ver" >>),
      ArgStr(<< "-ver" >>), ArgStr(<<>>), ArgUndefined, ArgArr(<< << "-ver" >> >>) }

TagInputs ==
    { ArgStr(<< "-IPTC:Keywords=x" >>), ArgArr(<< << "-a=1" >>, << "-b=2" >> >>), ArgNum(1),
      ArgUndefined }

Coordinates ==
    { ArgCoords(lat, lon, city) :
        lat \in {-1, 0, 1}, lon \in {0, 1}, city \in { Undefined, << "Paris" >> } }

NextTools ==
    \/ \E arg \in { ArgUndefined, ArgStr(FileA), ArgStr(DirD) } : Budget /\ InitCall(arg)
    \/ InitSteps
    \/ \E op \in {"getXmpPacket", "nullIsland", "nemo", "stripLocation"} :
          Budget /\ ToolCall(op, ArgUndefined)
    \/ \E c \in Coordinates : Budget /\ ToolCall("setLocation", c)
    \/ \E op \in {"writeMetadataToTag", "clearMetadataFromTag"}, tags \in TagInputs :
          Budget /\ ToolCall(op, tags)
    \/ \E query \in RawQueries : Budget /\ ToolCall("raw", query)
    \/ ToolDone
    \/ Budget /\ GetMetadataCall(ArgNull, ArgStr(<<>>), <<>>)
    \/ GetMetadataDone
    \/ Budget /\ StripMetadataCall
    \/ StripMetadataDone

SpecTools == InitWith({Undefined, DirD}, {FALSE}, {TRUE}) /\ [][NextTools]_vars

\* The outcome of the call that has just ended carries the command.
Carries(command) ==
    IF call.op = "getMetadata" THEN ret.val.exiftool_command = command
    ELSE IF call.op = "stripMetadata" THEN ret.val.command = command
    ELSE \/ command \in { ret.val.command, ret.val.exiftool_command, ret.val.cmd }
         \/ Contains(ret.val.message, command)

\* C21: when the child process of getMetadata, getXmpPacket, raw,
\* writeMetadataToTag, clearMetadataFromTag, stripMetadata, setLocation,
\* nullIsland, nemo or stripLocation has failed (it exited with an error, or
\* wrote to stderr), what the operation returns or throws carries the command
\* that was given to the process.
C21_FailureCarriesCommand ==
    ( /\ call.op \in { "getMetadata", "getXmpPacket", "raw", "writeMetadataToTag",
                       "clearMetadataFromTag", "stripMetadata", "setLocation",
                       "nullIsland", "nemo", "stripLocation" }
      /\ pc = "idle"
      /\ exec # Null
      /\ toolOut.status \in {"fail", "stderr"} ) => Carries(exec)

\* The call starts no child process, throws, and leaves the object as it was.
Refused ==
    /\ procs' = <<>>
    /\ pc' = "idle"
    /\ ret'.kind = "throw"
    /\ this' = this

\* C22: the seven writing operations called while _path is null, and
\* writeMetadataToTag, clearMetadataFromTag and stripMetadata called while the
\* Target is a directory or with a tag argument that is neither a string nor an
\* array, throw without starting a child process and leave the option set, the
\* Target and the command unchanged.
C22_RefusedLocally ==
    [][ \A op \in { "writeMetadataToTag", "clearMetadataFromTag", "stripMetadata",
                    "setLocation", "nullIsland", "nemo", "stripLocation" } :
          CallStep(op) =>
              /\ this._path = Null => Refused
              /\ ( /\ op \in {"writeMetadataToTag", "clearMetadataFromTag", "stripMetadata"}
                   /\ this._path # Null
                   /\ Stat(fsFiles, StatTarget(this._path)) = "dir" ) => Refused
              /\ ( /\ op \in {"writeMetadataToTag", "clearMetadataFromTag"}
                   /\ call'.arg.kind \notin {"string", "array"} ) => Refused
      ]_vars

\* The first word of the query is a path that ends in the executable's name.
StartsWithExecutablePath(query) ==
    \E i \in 1..Len(query) :
        /\ query[i] \in ExiftoolNames
        /\ i = Len(query) \/ query[i + 1] = SP
        /\ \A j \in 1..(i - 1) : query[j] # SP

\* The command without the blank it starts with, when it starts with one.
WithoutLeadingBlank(command) ==
    IF command # <<>> /\ Head(command) = SP THEN Tail(command) ELSE command

\* C24: raw(query) leaves the object as it is; for a query that is empty,
\* undefined or not a string, or that has no executable path while _executable
\* is null, it throws without starting a child process; otherwise the command
\* it runs is the query itself (a leading blank aside) when the query starts
\* with a path to the exiftool executable, and _executable, a blank and the
\* query when it does not.
C24_RawCommand ==
    [][ /\ (CallStep("raw") \/ (pc = "tool_exec" /\ call.op = "raw")) => this' = this
        /\ CallStep("raw") =>
              LET query == call'.arg
              IN  IF \/ query.kind # "string"
                     \/ query.s = <<>>
                     \/ ~StartsWithExecutablePath(query.s) /\ this._executable = Null
                  THEN procs' = <<>> /\ pc' = "idle" /\ ret'.kind = "throw"
                  ELSE /\ Len(procs') = 1
                       /\ IF StartsWithExecutablePath(query.s)
                          THEN WithoutLeadingBlank(procs'[1]) = query.s
                          ELSE procs'[1] = this._executable \o <<SP>> \o query.s
      ]_vars

\* C25: the command setLocation runs for numeric coordinates, 0 included, has
\* -GPSLatitude and -GPSLongitude set to the values given, with reference N for
\* a positive latitude and S otherwise, E for a positive longitude and W
\* otherwise.
C25_LocationCommand ==
    [][ (CallStep("setLocation") /\ this._path # Null) =>
          LET c == call'.arg
          IN  /\ Len(procs') = 1
              /\ Contains(procs'[1], << "-GPSLatitude=" >> \o NumStr(c.latitude) \o << SP >>)
              /\ Contains(procs'[1],
                          << "-GPSLatitudeRef=", IF c.latitude > 0 THEN "N" ELSE "S", SP >>)
              /\ Contains(procs'[1], << "-GPSLongitude=" >> \o NumStr(c.longitude) \o << SP >>)
              /\ Contains(procs'[1],
                          << "-GPSLongitudeRef=", IF c.longitude > 0 THEN "E" ELSE "W", SP >>)
      ]_vars

====
